---- MODULE Spec2Model ----
(***************************************************************************)
(* A model of the graph package: the storage engine the wrappers delegate  *)
(* to (retworkx PyDiGraph, a petgraph StableGraph), the base wrapper       *)
(* RetworkXMultiDiGraph, the integer-keyed canonical layer                 *)
(* RetworkXCanonicalMultiDiGraph and the string-keyed canonical layer      *)
(* RetworkXStrCanonicalMultiDiGraph.                                       *)
(*                                                                         *)
(* Payload objects are written as records.  add_node and add_edge are      *)
(* called with freshly built payloads; update_edge is called either with a *)
(* freshly built payload or with the stored object after the caller        *)
(* changed its key in place.                                               *)
(***************************************************************************)
EXTENDS Integers, Sequences, FiniteSets, TLC

\* Bounds of the model.
MaxNodes == 2
MaxEdges == 2
\* calls made on a graph and its copy once the copy exists
MaxAfterCopy == 1
\* nodes and edges of the graphs the functions of api.py are applied to
ApiNodes == 3
ApiEdges == 3

Keys == {"a", "b"}
Vals == {"x", "y"}
StrIds == {"A", "B"}
NodeIds == 0 .. (MaxNodes - 1)
EdgeIds == 0 .. (MaxEdges - 1)

\* ------------------------------------------------------------------------
\* Helpers on functions and sequences
\* ------------------------------------------------------------------------
NoFcn == [x \in {} |-> x]
Put(f, k, w) == [x \in (DOMAIN f) \cup {k} |-> IF x = k THEN w ELSE f[x]]
Drop(f, k) == [x \in (DOMAIN f) \ {k} |-> f[x]]

Without(s, S) == SelectSeq(s, LAMBDA x : x \notin S)

\* ------------------------------------------------------------------------
\* PyDiGraph: the storage every wrapper holds in self._graph.
\*   nbound/ebound  number of node/edge slots ever allocated
\*   nw             live node index -> payload
\*   ew             live edge index -> [source, target, w]
\*   nfree/efree    vacant slots, the next one to be occupied first
\*   adj            live edge indices, most recently inserted first; the
\*                  out-list of u (in-list of v) is adj filtered by source
\*                  (target)
\* ------------------------------------------------------------------------
PyDiGraph(check_cycle) ==
    [nbound |-> 0, nw |-> NoFcn, nfree |-> <<>>,
     ebound |-> 0, ew |-> NoFcn, efree |-> <<>>,
     adj |-> <<>>, check_cycle |-> check_cycle]

node_indexes(g) == DOMAIN g.nw
edge_indexes(g) == DOMAIN g.ew
num_nodes(g) == Cardinality(DOMAIN g.nw)
num_edges(g) == Cardinality(DOMAIN g.ew)

\* out-list / in-list of a node, in adjacency order
OutList(g, u) == SelectSeq(g.adj, LAMBDA e : g.ew[e].source = u)
InList(g, v) == SelectSeq(g.adj, LAMBDA e : g.ew[e].target = v)
Between(g, u, v) ==
    SelectSeq(g.adj, LAMBDA e : g.ew[e].source = u /\ g.ew[e].target = v)

out_degree(g, n) == Len(OutList(g, n))
in_degree(g, n) == Len(InList(g, n))

\* PyDiGraph.add_node: a vacant slot is occupied before a new one is allocated
PyAddNode(g, w) ==
    IF g.nfree # <<>>
    THEN [g |-> [g EXCEPT !.nw = Put(g.nw, Head(g.nfree), w),
                          !.nfree = Tail(g.nfree)],
          ret |-> Head(g.nfree)]
    ELSE [g |-> [g EXCEPT !.nw = Put(g.nw, g.nbound, w),
                          !.nbound = g.nbound + 1],
          ret |-> g.nbound]

\* whether add_node needs a new slot, and whether one is left within the bound
NodeRoom(g) == g.nfree # <<>> \/ g.nbound < MaxNodes
EdgeRoom(g) == g.efree # <<>> \/ g.ebound < MaxEdges

\* the nodes a path of zero or more edges leads to from a node of S
RECURSIVE ReachSet(_, _)
ReachSet(g, S) ==
    LET T == S \cup {g.ew[e].target : e \in {x \in DOMAIN g.ew : g.ew[x].source \in S}}
    IN IF T = S THEN S ELSE ReachSet(g, T)

\* has_path_connecting(a, b): a node reaches itself
HasPath(g, a, b) == b \in ReachSet(g, {a})

\* PyDiGraph with check_cycle set looks for a path only when the new edge
\* a -> b could close a cycle: a has a parent, b has a child and no edge
\* a -> b is there yet
CycleCheckRequired(g, a, b) ==
    /\ InList(g, a) # <<>>
    /\ OutList(g, b) # <<>>
    /\ Between(g, a, b) = <<>>

\* an add_edge that does not look whether the endpoints are live
PyAddEdgeUnchecked(g, u, v, w) ==
    IF g.efree # <<>>
    THEN [g |-> [g EXCEPT !.ew = Put(g.ew, Head(g.efree),
                                     [source |-> u, target |-> v, w |-> w]),
                          !.efree = Tail(g.efree),
                          !.adj = <<Head(g.efree)>> \o g.adj],
          ret |-> Head(g.efree), res |-> "ok"]
    ELSE [g |-> [g EXCEPT !.ew = Put(g.ew, g.ebound,
                                     [source |-> u, target |-> v, w |-> w]),
                          !.ebound = g.ebound + 1,
                          !.adj = <<g.ebound>> \o g.adj],
          ret |-> g.ebound, res |-> "ok"]

\* PyDiGraph.add_edge: IndexError when an endpoint is not a live node;
\* DAGWouldCycle when check_cycle is set, the check is required and the
\* source is reachable from the target; otherwise a vacant edge slot is
\* occupied before a new one is allocated, and the edge goes to the front of
\* both endpoints' lists
PyAddEdge(g, u, v, w) ==
    IF u \notin DOMAIN g.nw \/ v \notin DOMAIN g.nw
    THEN [g |-> g, ret |-> -1, res |-> "IndexError"]
    ELSE IF g.check_cycle /\ CycleCheckRequired(g, u, v) /\ HasPath(g, v, u)
    THEN [g |-> g, ret |-> -1, res |-> "DAGWouldCycle"]
    ELSE IF g.efree # <<>>
    THEN [g |-> [g EXCEPT !.ew = Put(g.ew, Head(g.efree),
                                     [source |-> u, target |-> v, w |-> w]),
                          !.efree = Tail(g.efree),
                          !.adj = <<Head(g.efree)>> \o g.adj],
          ret |-> Head(g.efree), res |-> "ok"]
    ELSE [g |-> [g EXCEPT !.ew = Put(g.ew, g.ebound,
                                     [source |-> u, target |-> v, w |-> w]),
                          !.ebound = g.ebound + 1,
                          !.adj = <<g.ebound>> \o g.adj],
          ret |-> g.ebound, res |-> "ok"]

\* a removal by index that vacates the slot without looking whether it is
\* occupied
PyRemoveEdgeFromIndexAnyway(g, e) ==
    [g EXCEPT !.ew = Drop(g.ew, e),
              !.efree = <<e>> \o g.efree,
              !.adj = Without(g.adj, {e})]

\* PyDiGraph.remove_edge_from_index: nothing happens when the index is vacant
PyRemoveEdgeFromIndex(g, e) ==
    IF e \notin DOMAIN g.ew THEN g
    ELSE [g EXCEPT !.ew = Drop(g.ew, e),
                   !.efree = <<e>> \o g.efree,
                   !.adj = Without(g.adj, {e})]

RECURSIVE PyRemoveEdgeSeq(_, _)
PyRemoveEdgeSeq(g, es) ==
    IF es = <<>> THEN g
    ELSE PyRemoveEdgeSeq(PyRemoveEdgeFromIndex(g, Head(es)), Tail(es))

\* a removal that forgets the edges going out of the node
PyRemoveNodeInOnly(g, n) ==
    IF n \notin DOMAIN g.nw THEN g
    ELSE LET g1 == PyRemoveEdgeSeq(g, InList(g, n))
         IN [g1 EXCEPT !.nw = Drop(g1.nw, n), !.nfree = <<n>> \o g1.nfree]

\* a removal that forgets the edges coming into the node
PyRemoveNodeOutOnly(g, n) ==
    IF n \notin DOMAIN g.nw THEN g
    ELSE LET g1 == PyRemoveEdgeSeq(g, OutList(g, n))
         IN [g1 EXCEPT !.nw = Drop(g1.nw, n), !.nfree = <<n>> \o g1.nfree]

\* PyDiGraph.remove_node: the out-list is emptied first, then the in-list,
\* then the slot is vacated; nothing happens when the index is vacant
PyRemoveNode(g, n) ==
    IF n \notin DOMAIN g.nw THEN g
    ELSE LET g1 == PyRemoveEdgeSeq(g, OutList(g, n))
             g2 == PyRemoveEdgeSeq(g1, InList(g1, n))
         IN [g2 EXCEPT !.nw = Drop(g2.nw, n), !.nfree = <<n>> \o g2.nfree]

\* PyDiGraph.get_all_edge_data: the payloads of the edges u -> v, in the
\* order of u's out-list; <<>> stands for NoEdgeBetweenNodes
get_all_edge_data(g, u, v) ==
    LET es == Between(g, u, v) IN [i \in 1 .. Len(es) |-> g.ew[es[i]].w]

\* PyDiGraph.update_edge_by_index / __setitem__ on live indices
PyUpdateEdge(g, e, w) == [g EXCEPT !.ew[e].w = w]
PyUpdateNode(g, n, w) == [g EXCEPT !.nw[n] = w]

\* PyDiGraph.remove_edge(u, v) repeated until NoEdgeBetweenNodes: each round
\* removes the first edge u -> v of u's out-list
RECURSIVE RemoveWhileFound(_, _, _)
\* a loop that stops after the first edge it removed
RemoveOnceFound(g, u, v) ==
    IF Between(g, u, v) = <<>> THEN g
    ELSE PyRemoveEdgeFromIndex(g, Between(g, u, v)[1])

RemoveWhileFound(g, u, v) ==
    IF Between(g, u, v) = <<>> THEN g
    ELSE RemoveWhileFound(PyRemoveEdgeFromIndex(g, Between(g, u, v)[1]), u, v)

\* PyDiGraph.copy: a clone of the storage (slots, vacancies and lists);
\* the payloads are the same objects
PyCopy(g) == g

\* the elements of a set of numbers, in ascending order
RECURSIVE Ascending(_)
Ascending(S) ==
    IF S = {} THEN <<>>
    ELSE LET m == CHOOSE x \in S : \A y \in S : x <= y
         IN <<m>> \o Ascending(S \ {m})

RECURSIVE Descending(_)
Descending(S) ==
    IF S = {} THEN <<>>
    ELSE LET m == CHOOSE x \in S : \A y \in S : x >= y
         IN <<m>> \o Descending(S \ {m})

\* PyDiGraph.__getstate__: the nodes by index, and the edges as (source,
\* target, payload) listed node by node in ascending index, each node's
\* incoming edges in the order of its in-list; edge indices are not kept
RECURSIVE IncomingOf(_, _)
IncomingOf(g, ns) ==
    IF ns = <<>> THEN <<>>
    ELSE LET es == InList(g, Head(ns))
         IN [i \in 1 .. Len(es) |-> g.ew[es[i]]] \o IncomingOf(g, Tail(ns))

PyGetState(g) ==
    [nodes |-> g.nw, edges |-> IncomingOf(g, Ascending(node_indexes(g)))]

\* PyDiGraph.__setstate__: nodes are added up to the largest index, with
\* placeholders in the gaps that are removed afterwards in ascending order,
\* then the edges are added in the order of the list
RECURSIVE PyAddEdges(_, _)
PyAddEdges(g, es) ==
    IF es = <<>> THEN g
    ELSE PyAddEdges(PyAddEdge(g, Head(es).source, Head(es).target,
                              Head(es).w).g, Tail(es))

\* a __setstate__ that leaves the placeholders of the gaps in the graph
PySetStateKeepGaps(state, check_cycle) ==
    IF DOMAIN state.nodes = {} THEN PyDiGraph(check_cycle)
    ELSE LET top == CHOOSE x \in DOMAIN state.nodes :
                        \A y \in DOMAIN state.nodes : x >= y
             g0 == [PyDiGraph(FALSE) EXCEPT
                       !.nbound = top + 1,
                       !.nw = [i \in 0 .. top |->
                                  IF i \in DOMAIN state.nodes
                                  THEN state.nodes[i]
                                  ELSE [id |-> -1, val |-> "None"]]]
         IN [PyAddEdges(g0, state.edges) EXCEPT !.check_cycle = check_cycle]

PySetState(state, check_cycle) ==
    IF DOMAIN state.nodes = {} THEN PyDiGraph(check_cycle)
    ELSE LET top == CHOOSE x \in DOMAIN state.nodes :
                        \A y \in DOMAIN state.nodes : x >= y
             g0 == [PyDiGraph(FALSE) EXCEPT
                       !.nbound = top + 1,
                       !.nw = state.nodes,
                       !.nfree = Descending((0 .. top) \ DOMAIN state.nodes)]
         IN [PyAddEdges(g0, state.edges) EXCEPT !.check_cycle = check_cycle]

\* the payloads among ws whose key is k, in order
WithKey(ws, k) == SelectSeq(ws, LAMBDA w : w.key = k)

\* ------------------------------------------------------------------------
\* The wrappers.  A method takes self as s = [g, idmap] (the PyDiGraph in
\* self._graph and, for the string layer, the dict in self.idmap) and gives
\* [g, idmap, ret, res]: the two objects after the call, the value returned
\* and "ok" or the exception raised.
\* ------------------------------------------------------------------------
Done(s, g, ret, res) == [g |-> g, idmap |-> s.idmap, ret |-> ret, res |-> res]
Raise(s, exc) == [g |-> s.g, idmap |-> s.idmap, ret |-> -1, res |-> exc]

\* ---- RetworkXMultiDiGraph (base.py)
BaseAddNode(s, node) ==
    LET r == PyAddNode(s.g, node) IN Done(s, r.g, r.ret, "ok")

BaseAddEdge(s, edge) ==
    LET r == PyAddEdge(s.g, edge.source, edge.target, edge)
    IN Done(s, r.g, r.ret, r.res)

BaseRemoveNode(s, nid) == Done(s, PyRemoveNode(s.g, nid), -1, "ok")

BaseRemoveEdge(s, eid) == Done(s, PyRemoveEdgeFromIndex(s.g, eid), -1, "ok")

BaseUpdateEdge(s, edge) ==
    IF edge.id \notin DOMAIN s.g.ew THEN Raise(s, "IndexError")
    ELSE Done(s, PyUpdateEdge(s.g, edge.id, edge), -1, "ok")

BaseUpdateNode(s, node) ==
    IF node.id \notin DOMAIN s.g.nw THEN Raise(s, "IndexError")
    ELSE Done(s, PyUpdateNode(s.g, node.id, node), -1, "ok")

BaseRemoveEdgesBetweenNodes(s, uid, vid) ==
    Done(s, RemoveWhileFound(s.g, uid, vid), -1, "ok")

\* a degree that counts an edge from a node to itself once
degreeDistinct(s, nid) ==
    in_degree(s.g, nid) + out_degree(s.g, nid) - Len(Between(s.g, nid, nid))

degree(s, nid) == in_degree(s.g, nid) + out_degree(s.g, nid)

\* ---- RetworkXCanonicalMultiDiGraph (canonical.py)
\* an add_node that leaves the payload's id as the caller set it
CanonAddNodeNoId(s, node) ==
    LET r == PyAddNode(s.g, node)
    IN Done(s, r.g, r.ret, "ok")

CanonAddNode(s, node) ==
    LET r == PyAddNode(s.g, node)
    IN Done(s, PyUpdateNode(r.g, r.ret, [node EXCEPT !.id = r.ret]), r.ret, "ok")

\* an add_edge without the look-up of an existing edge with the key
CanonAddEdgeAlways(s, edge) ==
    LET r == PyAddEdge(s.g, edge.source, edge.target, edge)
    IN IF r.res # "ok" THEN Raise(s, r.res)
       ELSE Done(s, PyUpdateEdge(r.g, r.ret, [edge EXCEPT !.id = r.ret]),
                 r.ret, "ok")

CanonAddEdge(s, edge) ==
    LET edges == WithKey(get_all_edge_data(s.g, edge.source, edge.target),
                         edge.key)
        r == PyAddEdge(s.g, edge.source, edge.target, edge)
    IN IF edges # <<>> THEN Done(s, s.g, edges[1].id, "dup")
       ELSE IF r.res # "ok" THEN Raise(s, r.res)
       ELSE Done(s, PyUpdateEdge(r.g, r.ret, [edge EXCEPT !.id = r.ret]),
                 r.ret, "ok")

CanonHasEdgeBetweenNodes(s, uid, vid, key) ==
    WithKey(get_all_edge_data(s.g, uid, vid), key) # <<>>

\* an update_edge that stores the payload without looking for the key
CanonUpdateEdgeNoCheck(s, edge) ==
    IF edge.id \notin DOMAIN s.g.ew THEN Raise(s, "IndexError")
    ELSE Done(s, PyUpdateEdge(s.g, edge.id, edge), -1, "ok")

CanonUpdateEdge(s, edge) ==
    IF edge.id \notin DOMAIN s.g.ew THEN Raise(s, "IndexError")
    ELSE IF /\ s.g.ew[edge.id].w.key # edge.key
            /\ CanonHasEdgeBetweenNodes(s, edge.source, edge.target, edge.key)
    THEN Raise(s, "ValueError")
    ELSE Done(s, PyUpdateEdge(s.g, edge.id, edge), -1, "ok")

CanonUpdateNode(s, node) == BaseUpdateNode(s, node)

\* get_edge_between_nodes raises KeyError when no edge has the key, so
\* remove_edge_between_nodes does too
CanonRemoveEdgeBetweenNodes(s, uid, vid, key) ==
    LET edges == WithKey(get_all_edge_data(s.g, uid, vid), key)
    IN IF edges = <<>> THEN Raise(s, "KeyError")
       ELSE BaseRemoveEdge(s, edges[1].id)

CanonCheckIntegrity(s) ==
    /\ \A nid \in node_indexes(s.g) : s.g.nw[nid].id = nid
    /\ \A eid \in edge_indexes(s.g) :
          /\ s.g.ew[eid].w.id = eid
          /\ s.g.ew[eid].w.source = s.g.ew[eid].source
          /\ s.g.ew[eid].w.target = s.g.ew[eid].target

\* __setstate__ (the same in both canonical layers): the unpickled __dict__
\* is taken over and every edge payload's id is set to the edge's index
RECURSIVE CanonSetIds(_, _)
CanonSetIds(g, eids) ==
    IF eids = {} THEN g
    ELSE LET eid == CHOOSE e \in eids : TRUE
         IN CanonSetIds(PyUpdateEdge(g, eid, [g.ew[eid].w EXCEPT !.id = eid]),
                        eids \ {eid})

\* a __setstate__ that keeps the ids the payloads were pickled with
CanonSetStateKeepIds(state) == state

CanonSetState(state) == [state EXCEPT !.g = CanonSetIds(state.g, edge_indexes(state.g))]

\* pickle.loads(pickle.dumps(self)): the __dict__ travels by value, the
\* PyDiGraph through its own __getstate__ / __setstate__
Reloaded(s) ==
    CanonSetState([g |-> PySetState(PyGetState(s.g), s.g.check_cycle),
                   idmap |-> s.idmap])

\* ---- RetworkXCanonicalMultiDiGraph of retworkx_graph.py, the module the
\* package keeps beside graph/retworkx
OldCanonAddNode(s, node) ==
    LET r == PyAddNode(s.g, node)
    IN Done(s, PyUpdateNode(r.g, r.ret, [node EXCEPT !.id = r.ret]), r.ret, "ok")

\* edge.id = self._graph.add_edge(edge.source, edge.target, edge)
OldCanonAddEdge(s, edge) ==
    LET r == PyAddEdge(s.g, edge.source, edge.target, edge)
    IN IF r.res # "ok" THEN Raise(s, r.res)
       ELSE Done(s, PyUpdateEdge(r.g, r.ret, [edge EXCEPT !.id = r.ret]),
                 r.ret, "ok")

\* the first edge between the nodes with the key, <<>> for None
OldCanonGetEdgeBetweenNodes(s, uid, vid, key) ==
    LET edges == WithKey(get_all_edge_data(s.g, uid, vid), key)
    IN IF edges = <<>> THEN <<>> ELSE <<edges[1]>>

\* ---- RetworkXStrCanonicalMultiDiGraph (str_canonical.py)
StrAddNode(s, node) ==
    LET r == PyAddNode(s.g, node)
    IN [g |-> r.g, idmap |-> Put(s.idmap, node.id, r.ret),
        ret |-> node.id, res |-> "ok"]

StrAddEdge(s, edge) ==
    IF edge.source \notin DOMAIN s.idmap \/ edge.target \notin DOMAIN s.idmap
    THEN Raise(s, "KeyError")
    ELSE LET uid == s.idmap[edge.source]
             vid == s.idmap[edge.target]
             edges == WithKey(get_all_edge_data(s.g, uid, vid), edge.key)
             r == PyAddEdge(s.g, uid, vid, edge)
         IN IF edges # <<>> THEN Done(s, s.g, edges[1].id, "dup")
            ELSE IF r.res # "ok" THEN Raise(s, r.res)
            ELSE Done(s, PyUpdateEdge(r.g, r.ret, [edge EXCEPT !.id = r.ret]),
                      r.ret, "ok")

StrRemoveNode(s, nid) ==
    IF nid \notin DOMAIN s.idmap THEN Raise(s, "KeyError")
    ELSE [g |-> PyRemoveNode(s.g, s.idmap[nid]), idmap |-> Drop(s.idmap, nid),
          ret |-> -1, res |-> "ok"]

StrUpdateNode(s, node) ==
    IF node.id \notin DOMAIN s.idmap THEN Raise(s, "KeyError")
    ELSE IF s.idmap[node.id] \notin DOMAIN s.g.nw THEN Raise(s, "IndexError")
    ELSE Done(s, PyUpdateNode(s.g, s.idmap[node.id], node), -1, "ok")

StrHasEdgeBetweenNodes(s, uid, vid, key) ==
    /\ uid \in DOMAIN s.idmap
    /\ vid \in DOMAIN s.idmap
    /\ WithKey(get_all_edge_data(s.g, s.idmap[uid], s.idmap[vid]), key) # <<>>

StrUpdateEdge(s, edge) ==
    IF edge.id \notin DOMAIN s.g.ew THEN Raise(s, "IndexError")
    ELSE IF /\ s.g.ew[edge.id].w.key # edge.key
            /\ StrHasEdgeBetweenNodes(s, edge.source, edge.target, edge.key)
    THEN Raise(s, "ValueError")
    ELSE Done(s, PyUpdateEdge(s.g, edge.id, edge), -1, "ok")

StrRemoveEdgesBetweenNodes(s, uid, vid) ==
    IF uid \notin DOMAIN s.idmap \/ vid \notin DOMAIN s.idmap
    THEN Raise(s, "KeyError")
    ELSE BaseRemoveEdgesBetweenNodes(s, s.idmap[uid], s.idmap[vid])

StrRemoveEdgeBetweenNodes(s, uid, vid, key) ==
    IF uid \notin DOMAIN s.idmap \/ vid \notin DOMAIN s.idmap
    THEN Raise(s, "KeyError")
    ELSE CanonRemoveEdgeBetweenNodes(s, s.idmap[uid], s.idmap[vid], key)

\* the queries of the string layer: [ret, res], the value returned and "ok"
\* or the exception raised
Value(ret) == [ret |-> ret, res |-> "ok"]
Fails(exc) == [ret |-> -1, res |-> exc]

\* a sequence without the later occurrences of its elements
RECURSIVE Distinct(_)
Distinct(q) ==
    IF q = <<>> THEN <<>>
    ELSE <<Head(q)>> \o Distinct(SelectSeq(Tail(q), LAMBDA x : x # Head(q)))

\* the payloads of a sequence of edge indices / node indices
EdgeData(g, es) == [i \in 1 .. Len(es) |-> g.ew[es[i]].w]
NodeData(g, ns) == [i \in 1 .. Len(ns) |-> g.nw[ns[i]]]
Targets(g, es) == [i \in 1 .. Len(es) |-> g.ew[es[i]].target]
Sources(g, es) == [i \in 1 .. Len(es) |-> g.ew[es[i]].source]

StrGetNode(s, nid) ==
    IF nid \notin DOMAIN s.idmap THEN Fails("KeyError")
    ELSE IF s.idmap[nid] \notin DOMAIN s.g.nw THEN Fails("IndexError")
    ELSE Value(s.g.nw[s.idmap[nid]])

StrSuccessors(s, nid) ==
    IF nid \notin DOMAIN s.idmap THEN Fails("KeyError")
    ELSE Value(NodeData(s.g, Distinct(Targets(s.g, OutList(s.g, s.idmap[nid])))))

StrPredecessors(s, nid) ==
    IF nid \notin DOMAIN s.idmap THEN Fails("KeyError")
    ELSE Value(NodeData(s.g, Distinct(Sources(s.g, InList(s.g, s.idmap[nid])))))

StrDegree(s, nid) ==
    IF nid \notin DOMAIN s.idmap THEN Fails("KeyError")
    ELSE Value(degree(s, s.idmap[nid]))

StrInEdges(s, vid) ==
    IF vid \notin DOMAIN s.idmap THEN Fails("KeyError")
    ELSE Value(EdgeData(s.g, InList(s.g, s.idmap[vid])))

StrOutEdges(s, uid) ==
    IF uid \notin DOMAIN s.idmap THEN Fails("KeyError")
    ELSE Value(EdgeData(s.g, OutList(s.g, s.idmap[uid])))

\* has_edge_between_nodes as a call: both exceptions are caught, it returns
\* in every case
StrHasEdgeBetweenNodesCall(s, uid, vid, key) ==
    Value(StrHasEdgeBetweenNodes(s, uid, vid, key))

\* a has_edges_between_nodes that answers False for an unmapped id
StrHasEdgesBetweenNodesQuiet(s, uid, vid) ==
    IF uid \notin DOMAIN s.idmap \/ vid \notin DOMAIN s.idmap
    THEN Value(FALSE)
    ELSE Value(Between(s.g, s.idmap[uid], s.idmap[vid]) # <<>>)

StrHasEdgesBetweenNodes(s, uid, vid) ==
    IF uid \notin DOMAIN s.idmap \/ vid \notin DOMAIN s.idmap
    THEN Fails("KeyError")
    ELSE Value(Between(s.g, s.idmap[uid], s.idmap[vid]) # <<>>)

\* get_edges_between_nodes catches the KeyError of an unmapped id together
\* with NoEdgeBetweenNodes
StrGetEdgesBetweenNodes(s, uid, vid) ==
    IF uid \notin DOMAIN s.idmap \/ vid \notin DOMAIN s.idmap
    THEN Value(<<>>)
    ELSE Value(get_all_edge_data(s.g, s.idmap[uid], s.idmap[vid]))

\* get_edge_between_nodes catches NoEdgeBetweenNodes only
StrGetEdgeBetweenNodes(s, uid, vid, key) ==
    IF uid \notin DOMAIN s.idmap \/ vid \notin DOMAIN s.idmap
    THEN Fails("KeyError")
    ELSE LET edges == WithKey(get_all_edge_data(s.g, s.idmap[uid],
                                                s.idmap[vid]), key)
         IN IF edges = <<>> THEN Fails("KeyError") ELSE Value(edges[1])

\* {e.key: e for e in edges}: of several edges with one key the last stays
KeyDict(edges) ==
    [k \in {edges[i].key : i \in 1 .. Len(edges)} |->
        edges[CHOOSE i \in 1 .. Len(edges) :
                 /\ edges[i].key = k
                 /\ \A j \in 1 .. Len(edges) : edges[j].key = k => j <= i]]

\* canonical.group_in_edges / group_out_edges: one entry per node that
\* predecessors / successors lists, with the edges get_edges_between_nodes
\* finds under the id of that node's payload
CanonGroupInEdges(s, vid) ==
    LET us == NodeData(s.g, Distinct(Sources(s.g, InList(s.g, vid))))
    IN Value([i \in 1 .. Len(us) |->
                 [node |-> us[i],
                  edges |-> KeyDict(get_all_edge_data(s.g, us[i].id, vid))]])

CanonGroupOutEdges(s, uid) ==
    LET vs == NodeData(s.g, Distinct(Targets(s.g, OutList(s.g, uid))))
    IN Value([i \in 1 .. Len(vs) |->
                 [node |-> vs[i],
                  edges |-> KeyDict(get_all_edge_data(s.g, uid, vs[i].id))]])

\* str_canonical.group_in_edges / group_out_edges
StrGroupInEdges(s, vid) ==
    LET us == StrPredecessors(s, vid)
    IN IF us.res # "ok" THEN us
       ELSE Value([i \in 1 .. Len(us.ret) |->
                     [node |-> us.ret[i],
                      edges |-> KeyDict(StrGetEdgesBetweenNodes(s,
                                            us.ret[i].id, vid).ret)]])

StrGroupOutEdges(s, uid) ==
    LET vs == StrSuccessors(s, uid)
    IN IF vs.res # "ok" THEN vs
       ELSE Value([i \in 1 .. Len(vs.ret) |->
                     [node |-> vs.ret[i],
                      edges |-> KeyDict(StrGetEdgesBetweenNodes(s,
                                            uid, vs.ret[i].id).ret)]])

\* check_integrity walks the nodes, then the edges by ascending index, and
\* stops at the first mismatch (False) or unmapped endpoint (KeyError)
RECURSIVE StrCheckEdges(_, _)
StrCheckEdges(s, eids) ==
    IF eids = {} THEN "True"
    ELSE LET eid == CHOOSE e \in eids : \A f \in eids : e <= f
             rec == s.g.ew[eid]
         IN IF rec.w.id # eid THEN "False"
            ELSE IF rec.w.source \notin DOMAIN s.idmap THEN "KeyError"
            ELSE IF s.idmap[rec.w.source] # rec.source THEN "False"
            ELSE IF rec.w.target \notin DOMAIN s.idmap THEN "KeyError"
            ELSE IF s.idmap[rec.w.target] # rec.target THEN "False"
            ELSE StrCheckEdges(s, eids \ {eid})

StrCheckIntegrity(s) ==
    IF num_nodes(s.g) # Cardinality(DOMAIN s.idmap) THEN "False"
    ELSE IF \E nid \in node_indexes(s.g) :
               \/ s.g.nw[nid].id \notin DOMAIN s.idmap
               \/ s.idmap[s.g.nw[nid].id] # nid
    THEN "False"
    ELSE StrCheckEdges(s, edge_indexes(s.g))

\* has_node, called with any Python value x = [t, v] (t its type)
BaseHasNode(s, x) == x.t = "int" /\ x.v \in DOMAIN s.g.nw
StrHasNode(s, x) == x.t = "str" /\ x.v \in DOMAIN s.idmap

\* ------------------------------------------------------------------------
\* Program state
\*   cls     the class of the graph objects: "base", "int" or "str", and
\*           "old" for the canonical graph of retworkx_graph.py
\*   objs    the graph objects by the name the caller holds them under
\*           ("G", and "H" for a copy); each is its __dict__: the reference
\*           in _graph and, for the string layer, the reference in idmap
\*   heap    reference -> PyDiGraph
\*   dicts   reference -> idmap dict (external id -> node index)
\*   last    the last call: object, method, whether the argument was the
\*           stored object itself, value returned, outcome, and what the
\*           caller observed just before a remove_node
\*   issued  per object, the ids add_node / an inserting add_edge returned
\*   calls   the number of calls made since the first copy was taken
\* ------------------------------------------------------------------------
VARIABLES cls, objs, heap, dicts, last, issued, calls

vars == <<cls, objs, heap, dicts, last, issued, calls>>

Self(o) ==
    [g |-> heap[objs[o].graph],
     idmap |-> IF cls = "str" THEN dicts[objs[o].idmap] ELSE NoFcn]

\* the method the class of the object resolves a call to
add_node(s, node) ==
    CASE cls = "base" -> BaseAddNode(s, node)
      [] cls = "int" -> CanonAddNode(s, node)
      [] cls = "old" -> OldCanonAddNode(s, node)
      [] cls = "str" -> StrAddNode(s, node)

add_edge(s, edge) ==
    CASE cls = "base" -> BaseAddEdge(s, edge)
      [] cls = "int" -> CanonAddEdge(s, edge)
      [] cls = "old" -> OldCanonAddEdge(s, edge)
      [] cls = "str" -> StrAddEdge(s, edge)

remove_node(s, nid) ==
    IF cls = "str" THEN StrRemoveNode(s, nid) ELSE BaseRemoveNode(s, nid)

remove_edge(s, eid) == BaseRemoveEdge(s, eid)

update_node(s, node) ==
    CASE cls = "base" -> BaseUpdateNode(s, node)
      [] cls = "int" -> CanonUpdateNode(s, node)
      [] cls = "str" -> StrUpdateNode(s, node)

update_edge(s, edge) ==
    CASE cls = "base" -> BaseUpdateEdge(s, edge)
      [] cls = "int" -> CanonUpdateEdge(s, edge)
      [] cls = "str" -> StrUpdateEdge(s, edge)

remove_edges_between_nodes(s, uid, vid) ==
    IF cls = "str" THEN StrRemoveEdgesBetweenNodes(s, uid, vid)
    ELSE BaseRemoveEdgesBetweenNodes(s, uid, vid)

remove_edge_between_nodes(s, uid, vid, key) ==
    IF cls = "str" THEN StrRemoveEdgeBetweenNodes(s, uid, vid, key)
    ELSE CanonRemoveEdgeBetweenNodes(s, uid, vid, key)

has_node(s, x) == IF cls = "str" THEN StrHasNode(s, x) ELSE BaseHasNode(s, x)

check_integrity(s) ==
    IF cls = "str" THEN StrCheckIntegrity(s)
    ELSE IF CanonCheckIntegrity(s) THEN "True" ELSE "False"

group_in_edges(s, vid) ==
    IF cls = "str" THEN StrGroupInEdges(s, vid) ELSE CanonGroupInEdges(s, vid)

group_out_edges(s, uid) ==
    IF cls = "str" THEN StrGroupOutEdges(s, uid) ELSE CanonGroupOutEdges(s, uid)

\* a has_cycle that does not look at self-loops
has_cycle_proper(s) ==
    \E e \in edge_indexes(s.g) :
        /\ s.g.ew[e].source # s.g.ew[e].target
        /\ HasPath(s.g, s.g.ew[e].target, s.g.ew[e].source)

\* api.has_cycle: not retworkx.is_directed_acyclic_graph(g._graph)
has_cycle(s) ==
    \E e \in edge_indexes(s.g) : HasPath(s.g, s.g.ew[e].target, s.g.ew[e].source)

\* ------------------------------------------------------------------------
\* api.py and the retworkx functions it calls.  An optional argument is
\* <<>> for None and <<k>> for the integer k.
\* ------------------------------------------------------------------------
\* neighbors_directed(n, Outgoing): one entry per edge, newest edge first
OutTargets(g, n) == Targets(g, OutList(g, n))

\* The library computes with usize.  A build with overflow checks panics
\* when a subtraction goes below zero, a build without them wraps.  The
\* wrapped values are only compared with path lengths, so the modulus need
\* only exceed every length.
Builds == {"checked", "wrapping"}
UsizeModulus == 65536
WrapSub(a, b) == (a - b + UsizeModulus) % UsizeModulus
WrapAdd(a, b) == (a + b) % UsizeModulus

Pop(q) == SubSeq(q, 1, Len(q) - 1)
InSeq(x, q) == \E i \in 1 .. Len(q) : q[i] = x

\* petgraph all_simple_paths: visited is the path so far, stack holds for
\* each node of it the children not yet tried; a path is emitted each time a
\* child is the target, so parallel edges emit the same node path again
RECURSIVE SimplePathsLoop(_, _, _, _, _, _, _)
SimplePathsLoop(g, to, min_length, max_length, visited, stack, out) ==
    IF stack = <<>> THEN out
    ELSE LET children == stack[Len(stack)]
         IN IF children = <<>>
            THEN SimplePathsLoop(g, to, min_length, max_length,
                                 Pop(visited), Pop(stack), out)
            ELSE LET child == Head(children)
                     stack1 == [stack EXCEPT ![Len(stack)] = Tail(children)]
                     path == visited \o <<to>>
                 IN IF Len(visited) < max_length
                    THEN IF child = to
                         THEN SimplePathsLoop(g, to, min_length, max_length,
                                  visited, stack1,
                                  IF Len(visited) >= min_length
                                  THEN Append(out, path) ELSE out)
                         ELSE IF ~InSeq(child, visited)
                         THEN SimplePathsLoop(g, to, min_length, max_length,
                                  Append(visited, child),
                                  Append(stack1, OutTargets(g, child)), out)
                         ELSE SimplePathsLoop(g, to, min_length, max_length,
                                  visited, stack1, out)
                    ELSE \* the path is full: only the target may follow;
                         \* children.any() consumes the iterator up to it
                         LET rest == Tail(children)
                             hit == CHOOSE i \in 1 .. Len(rest) + 1 :
                                       /\ i <= Len(rest) => rest[i] = to
                                       /\ \A j \in 1 .. i - 1 : rest[j] # to
                             after == IF child = to THEN rest
                                      ELSE SubSeq(rest, hit + 1, Len(rest))
                             found == child = to \/ hit <= Len(rest)
                         IN IF found /\ Len(visited) >= min_length
                            THEN SimplePathsLoop(g, to, min_length, max_length,
                                     visited,
                                     [stack EXCEPT ![Len(stack)] = after],
                                     Append(out, path))
                            ELSE SimplePathsLoop(g, to, min_length, max_length,
                                     Pop(visited), Pop(stack), out)

\* a search without cutoff that stops one node short of the longest path
PyAllSimplePathsShort(g, from, to, min_depth, cutoff, build) ==
    IF from \notin node_indexes(g) \/ to \notin node_indexes(g)
    THEN Fails("InvalidNode")
    ELSE Value(SimplePathsLoop(g, to, 1, num_nodes(g) - 2, <<from>>,
                               <<OutTargets(g, from)>>, <<>>))

\* retworkx.digraph_all_simple_paths: min_depth and cutoff count the nodes of
\* a path; the library turns them into numbers of intermediate nodes by
\* subtracting 2
PyAllSimplePaths(g, from, to, min_depth, cutoff, build) ==
    IF from \notin node_indexes(g) \/ to \notin node_indexes(g)
    THEN Fails("InvalidNode")
    ELSE IF build = "checked"
            /\ \/ (min_depth # <<>> /\ min_depth[1] < 2)
               \/ (cutoff # <<>> /\ cutoff[1] < 2)
    THEN Fails("PanicException")
    ELSE LET min_intermediate_nodes ==
                 IF min_depth = <<>> THEN 0 ELSE WrapSub(min_depth[1], 2)
             max_length ==
                 IF cutoff = <<>> THEN num_nodes(g) - 1
                 ELSE WrapAdd(WrapSub(cutoff[1], 2), 1)
             min_length == WrapAdd(min_intermediate_nodes, 1)
         IN Value(SimplePathsLoop(g, to, min_length, max_length, <<from>>,
                                  <<OutTargets(g, from)>>, <<>>))

\* itertools.product(*lists): the first list varies slowest
RECURSIVE Flatten(_)
Flatten(qs) == IF qs = <<>> THEN <<>> ELSE Head(qs) \o Flatten(Tail(qs))

RECURSIVE Product(_)
Product(lists) ==
    IF lists = <<>> THEN << <<>> >>
    ELSE LET rest == Product(Tail(lists))
             first == Head(lists)
         IN Flatten([i \in 1 .. Len(first) |->
                        [j \in 1 .. Len(rest) |-> <<first[i]>> \o rest[j]]])

\* the edge paths of one node path: one per choice of a parallel edge for
\* each hop
Expand(g, nodes) ==
    Product([i \in 1 .. Len(nodes) - 1 |->
                get_all_edge_data(g, nodes[i], nodes[i + 1])])

\* a digraph_all_simple_paths that expands every node path the search
\* reports, without the visited_paths set
all_simple_paths_no_dedup(s, source, target, min_depth, cutoff, build, str) ==
    IF str /\ (source \notin DOMAIN s.idmap \/ target \notin DOMAIN s.idmap)
    THEN Fails("KeyError")
    ELSE LET r == PyAllSimplePaths(s.g,
                      IF str THEN s.idmap[source] ELSE source,
                      IF str THEN s.idmap[target] ELSE target,
                      min_depth,
                      IF cutoff = <<>> THEN <<>> ELSE <<cutoff[1] + 1>>,
                      build)
         IN IF r.res # "ok" THEN r
            ELSE Value(Flatten([i \in 1 .. Len(r.ret) |-> Expand(s.g, r.ret[i])]))

\* api.digraph_all_simple_paths, str telling whether g is a string-keyed
\* graph: cutoff is raised by one, min_depth is passed as it is
all_simple_paths(s, source, target, min_depth, cutoff, build, str) ==
    IF str /\ (source \notin DOMAIN s.idmap \/ target \notin DOMAIN s.idmap)
    THEN Fails("KeyError")
    ELSE LET r == PyAllSimplePaths(s.g,
                      IF str THEN s.idmap[source] ELSE source,
                      IF str THEN s.idmap[target] ELSE target,
                      min_depth,
                      IF cutoff = <<>> THEN <<>> ELSE <<cutoff[1] + 1>>,
                      build)
             nodes == Distinct(r.ret)
         IN IF r.res # "ok" THEN r
            ELSE Value(Flatten([i \in 1 .. Len(nodes) |-> Expand(s.g, nodes[i])]))

digraph_all_simple_paths(s, source, target, min_depth, cutoff, build) ==
    all_simple_paths(s, source, target, min_depth, cutoff, build, cls = "str")

\* retworkx.digraph_find_cycle(graph, source): a depth-first search with an
\* explicit stack.  The node on top of the stack is marked as being visited
\* and its children are scanned in adjacency order: a child being visited
\* closes a cycle; a child not yet done is pushed with the top as its
\* predecessor.  A top that pushed nothing is popped and marked done.
RECURSIVE ScanChildren(_, _, _, _, _, _)
ScanChildren(children, z, stack, pred, visiting, visited) ==
    IF children = <<>>
    THEN [found |-> FALSE, child |-> z, stack |-> stack, pred |-> pred]
    ELSE LET child == Head(children)
         IN IF child \in visiting
            THEN [found |-> TRUE, child |-> child, stack |-> stack,
                  pred |-> pred]
            ELSE IF child \notin visited
            THEN ScanChildren(Tail(children), z, Append(stack, child),
                              Put(pred, child, z), visiting, visited)
            ELSE ScanChildren(Tail(children), z, stack, pred, visiting,
                              visited)

Reverse(q) == [i \in 1 .. Len(q) |-> q[Len(q) + 1 - i]]

\* the cycle is read off the predecessors, from the node that met the child
\* back to the child
RECURSIVE Backtrack(_, _, _, _)
Backtrack(pred, z, child, cycle) ==
    IF z = child THEN Value(Reverse(cycle))
    ELSE IF z \notin DOMAIN pred \/ Len(cycle) > Cardinality(DOMAIN pred) + 1
    THEN Fails("PanicException")
    ELSE Backtrack(pred, pred[z], child, Append(cycle, <<pred[z], z>>))

RECURSIVE FindCycleLoop(_, _, _, _, _)
FindCycleLoop(g, stack, pred, visiting, visited) ==
    IF stack = <<>> THEN Value(<<>>)
    ELSE LET z == stack[Len(stack)]
             scan == ScanChildren(OutTargets(g, z), z, stack, pred,
                                  visiting \cup {z}, visited)
         IN IF scan.found
            THEN Backtrack(scan.pred, z, scan.child, <<<<z, scan.child>>>>)
            ELSE IF scan.stack[Len(scan.stack)] = z
            THEN FindCycleLoop(g, Pop(scan.stack), scan.pred, visiting \ {z},
                               visited \cup {z})
            ELSE FindCycleLoop(g, scan.stack, scan.pred, visiting \cup {z},
                               visited)

PyFindCycle(g, source) == FindCycleLoop(g, <<source>>, NoFcn, {}, {})

\* api.digraph_find_cycle: source goes to the library as it is, also when g
\* is a string-keyed graph and source a string, which the library does not
\* take for a node index; each pair of the cycle is replaced by the payload
\* get_edge_data gives, the first edge of the pair in the out-list
find_cycle(s, source, str) ==
    IF str THEN Fails("TypeError")
    ELSE LET cycle == PyFindCycle(s.g, source)
         IN IF cycle.res # "ok" THEN cycle
            ELSE Value([i \in 1 .. Len(cycle.ret) |->
                           s.g.ew[Between(s.g, cycle.ret[i][1],
                                          cycle.ret[i][2])[1]].w])

digraph_find_cycle(s, source) == find_cycle(s, source, cls = "str")

\* retworkx.weakly_connected_components: the node indices are walked in
\* ascending order; a node not seen yet starts a component, which is filled
\* by following edges in both directions
RECURSIVE UndirectedReach(_, _)
UndirectedReach(g, S) ==
    LET next == S \cup {g.ew[e].target : e \in {x \in edge_indexes(g) :
                                                  g.ew[x].source \in S}}
                  \cup {g.ew[e].source : e \in {x \in edge_indexes(g) :
                                                  g.ew[x].target \in S}}
    IN IF next = S THEN S ELSE UndirectedReach(g, next)

RECURSIVE Components(_, _, _)
Components(g, nodes, seen) ==
    IF nodes = <<>> THEN <<>>
    ELSE IF Head(nodes) \in seen THEN Components(g, Tail(nodes), seen)
    ELSE LET comp == UndirectedReach(g, {Head(nodes)})
         IN <<comp>> \o Components(g, Tail(nodes), seen \cup comp)

PyWeaklyConnectedComponents(g) ==
    Components(g, Ascending(node_indexes(g)), {})

\* an is_weakly_connected that follows the edges in their direction from the
\* first node
PyIsWeaklyConnectedDirected(g) ==
    IF num_nodes(g) = 0 THEN Fails("NullGraph")
    ELSE Value(ReachSet(g, {Ascending(node_indexes(g))[1]}) = node_indexes(g))

\* an is_weakly_connected that answers True for a graph without nodes
PyIsWeaklyConnectedOfNone(g) ==
    IF num_nodes(g) = 0 THEN Value(TRUE)
    ELSE Value(Cardinality(PyWeaklyConnectedComponents(g)[1]) = num_nodes(g))

\* retworkx.is_weakly_connected: NullGraph for a graph without nodes, else
\* whether the first component holds every node
PyIsWeaklyConnected(g) ==
    IF num_nodes(g) = 0 THEN Fails("NullGraph")
    ELSE Value(Cardinality(PyWeaklyConnectedComponents(g)[1]) = num_nodes(g))

\* api.is_weakly_connected
is_weakly_connected(s) == PyIsWeaklyConnected(s.g)

\* api.weakly_connected_components, str telling whether g is a string-keyed
\* graph: the components of a string-keyed graph are given by the ids of
\* the node payloads
connected_components(s, str) ==
    LET comps == PyWeaklyConnectedComponents(s.g)
    IN IF ~str THEN Value(comps)
       ELSE Value([i \in 1 .. Len(comps) |-> {s.g.nw[uid].id : uid \in comps[i]}])

weakly_connected_components(s) == connected_components(s, cls = "str")

\* petgraph::algo::toposort as retworkx.dag_longest_path uses it: an order
\* of the nodes in which every edge goes forward, or the failure Cycle when
\* there is none (a self-loop is a cycle).  The distances computed below do
\* not depend on which topological order is taken.
RECURSIVE TopoSort(_, _, _)
TopoSort(g, left, out) ==
    IF left = {} THEN Value(out)
    ELSE LET ready == {n \in left : \A e \in edge_indexes(g) :
                          g.ew[e].target = n => g.ew[e].source \notin left}
         IN IF ready = {} THEN Fails("Cycle")
            ELSE LET n == CHOOSE x \in ready : \A y \in ready : x <= y
                 IN TopoSort(g, left \ {n}, Append(out, n))

\* a max_by_key that takes the first entry whatever its length
MaxByKeyFirst(us) == us[1]

\* Iterator::max_by_key(|x| x.0): the last of the entries of greatest length
MaxByKey(us) ==
    us[CHOOSE i \in 1 .. Len(us) :
          \A j \in 1 .. Len(us) :
              us[j][1] < us[i][1] \/ (us[j][1] = us[i][1] /\ j <= i)]

\* the loop of longest_path over the sorted nodes: dist[node] is the pair
\* (edges on the longest path ending in node, parent on that path), a node
\* without incoming edge being its own parent
RECURSIVE LongestDist(_, _, _)
LongestDist(g, nodes, dist) ==
    IF nodes = <<>> THEN dist
    ELSE LET node == Head(nodes)
             parents == Sources(g, InList(g, node))
             us == [i \in 1 .. Len(parents) |->
                       <<dist[parents[i]][1] + 1, parents[i]>>]
             maxu == IF us = <<>> THEN <<0, node>> ELSE MaxByKey(us)
         IN LongestDist(g, Tail(nodes), Put(dist, node, maxu))

\* the walk from the last node back along the parents, reversed
RECURSIVE WalkBack(_, _, _)
WalkBack(dist, v, path) ==
    IF dist[v][2] = v THEN <<v>> \o path
    ELSE WalkBack(dist, dist[v][2], <<v>> \o path)

\* retworkx.dag_longest_path: DAGHasCycle when the sort fails, the empty
\* path for a graph without nodes; the path ends in a key of dist of
\* greatest (length, parent), and of several such keys the hash map's order
\* decides, so every one of them is a possible outcome
PyDagLongestPath(g) ==
    LET sorted == TopoSort(g, node_indexes(g), <<>>)
    IN IF sorted.res # "ok" THEN {Fails("DAGHasCycle")}
       ELSE IF sorted.ret = <<>> THEN {Value(<<>>)}
       ELSE LET dist == LongestDist(g, sorted.ret, NoFcn)
                last_nodes == {n \in DOMAIN dist : \A m \in DOMAIN dist :
                                  \/ dist[m][1] < dist[n][1]
                                  \/ /\ dist[m][1] = dist[n][1]
                                     /\ dist[m][2] <= dist[n][2]}
            IN {Value(WalkBack(dist, n, <<>>)) : n \in last_nodes}

\* api.dag_longest_path, str telling whether g is a string-keyed graph: the
\* path of a string-keyed graph is given by the ids of the node payloads
longest_path(s, str) ==
    {IF r.res # "ok" \/ ~str THEN r
     ELSE Value([i \in 1 .. Len(r.ret) |-> s.g.nw[r.ret[i]].id]) :
        r \in PyDagLongestPath(s.g)}

dag_longest_path(s) == longest_path(s, cls = "str")

\* conftest.parse_graph: n_nodes nodes are added, then the edges in the
\* order they are written, each with the default key ""
RECURSIVE AddNodes(_, _)
AddNodes(s, n) ==
    IF n = 0 THEN s
    ELSE LET r == CanonAddNode(AddNodes(s, n - 1), [id |-> -1, val |-> "x"])
         IN [g |-> r.g, idmap |-> r.idmap]

RECURSIVE AddEdges(_, _)
AddEdges(s, pairs) ==
    IF pairs = <<>> THEN s
    ELSE LET e == pairs[Len(pairs)]
             r == CanonAddEdge(AddEdges(s, Pop(pairs)),
                               [id |-> -1, source |-> e[1], target |-> e[2],
                                key |-> ""])
         IN [g |-> r.g, idmap |-> r.idmap]

parse_graph(n_nodes, pairs) ==
    AddEdges(AddNodes([g |-> PyDiGraph(FALSE), idmap |-> NoFcn], n_nodes), pairs)

\* the fixtures of the tests
graph2 == parse_graph(4, << <<0, 1>>, <<0, 2>>, <<0, 3>>, <<1, 2>>, <<2, 3>> >>)
graph3 == parse_graph(6, << <<0, 1>>, <<0, 2>>, <<0, 3>>, <<1, 2>>, <<2, 3>>,
                            <<4, 5>> >>)
graph4 == parse_graph(7, << <<0, 1>>, <<1, 2>>, <<2, 3>>, <<3, 1>>, <<4, 5>>,
                            <<4, 6>>, <<5, 4>> >>)

\* RetworkXMultiDiGraph.__eq__ (inherited by every layer)
Eq(a, b) ==
    /\ num_nodes(a.g) = num_nodes(b.g)
    /\ num_edges(a.g) = num_edges(b.g)
    /\ \A nid \in node_indexes(a.g) :
          /\ has_node(b, [t |-> "int", v |-> nid])
          /\ a.g.nw[nid] = b.g.nw[nid]
    /\ a.g.ew = b.g.ew

\* a copy that keeps the reference to the original's storage
CopyDictSameStorage(d, ref) == d

\* RetworkXMultiDiGraph.copy: a new object whose __dict__ is a shallow copy
\* of self.__dict__, with _graph then replaced by a copy of the PyDiGraph
CopyDict(d, ref) == [d EXCEPT !.graph = ref]

\* the ids the caller names nodes by, and the payloads it builds
NodeNames == IF cls = "str" THEN StrIds ELSE NodeIds
NewNodes == [id : IF cls = "str" THEN StrIds ELSE {-1}, val : {"x"}]
NewEdges == [id : {-1}, source : NodeNames, target : NodeNames, key : Keys]
NodeUpdates == [id : NodeNames, val : Vals]
AllEdges == [id : EdgeIds, source : NodeNames, target : NodeNames, key : Keys]
\* a fresh payload for update_edge that names the endpoints the stored
\* payload names (any endpoints when edge.id is not live), and one that
\* names other endpoints
EdgeUpdates(s) ==
    {e \in AllEdges : e.id \in DOMAIN s.g.ew =>
        /\ e.source = s.g.ew[e.id].w.source
        /\ e.target = s.g.ew[e.id].w.target}
EdgeMoves(s) == AllEdges \ EdgeUpdates(s)

\* what the caller observes before a call on a node
Observe(s, nid) ==
    LET n == IF cls = "str"
             THEN (IF nid \in DOMAIN s.idmap THEN s.idmap[nid] ELSE -1)
             ELSE nid
    IN [num_nodes |-> num_nodes(s.g), num_edges |-> num_edges(s.g),
        live |-> n \in DOMAIN s.g.nw,
        degree |-> degree(s, n),
        loops |-> Len(Between(s.g, n, n))]

NoObs == [num_nodes |-> 0, num_edges |-> 0, live |-> FALSE, degree |-> 0,
          loops |-> 0]

\* G = cls(): __init__ builds an empty PyDiGraph and, for the string layer,
\* an empty idmap
InitWith(c, check_cycle) ==
    /\ cls = c
    /\ objs = [o \in {"G"} |->
                  IF c = "str" THEN [graph |-> 1, idmap |-> 1]
                  ELSE [graph |-> 1]]
    /\ heap = [r \in {1} |-> PyDiGraph(check_cycle)]
    /\ dicts = IF c = "str" THEN [r \in {1} |-> NoFcn] ELSE NoFcn
    /\ last = [obj |-> "G", op |-> "init", same |-> FALSE,
               ret |-> -1, res |-> "ok", pre |-> NoObs]
    /\ issued = [o \in {"G"} |-> [n |-> {}, e |-> {}]]
    /\ calls = 0

InitOf(c) == InitWith(c, FALSE)

Init == InitOf("int")
InitStr == InitOf("str")
InitCanon == \E c \in {"int", "str"} : InitOf(c)
InitPlain == \E c \in {"base", "int"} : InitOf(c)
InitOld == InitOf("old")
InitAll == \E c \in {"base", "int", "str"} : InitOf(c)
\* G = cls(check_cycle=True)
InitDag == \E c \in {"base", "int"} : InitWith(c, TRUE)

Copied == "H" \in DOMAIN objs

\* the effect of a call on object o that gave r
Call(o, op, same, r, pre) ==
    /\ Copied => calls < MaxAfterCopy
    /\ calls' = IF Copied THEN calls + 1 ELSE calls
    /\ heap' = [heap EXCEPT ![objs[o].graph] = r.g]
    /\ dicts' = IF cls = "str"
                THEN [dicts EXCEPT ![objs[o].idmap] = r.idmap] ELSE dicts
    /\ last' = [obj |-> o, op |-> op, same |-> same,
                ret |-> r.ret, res |-> r.res, pre |-> pre]
    /\ UNCHANGED <<cls, objs>>

AddNode(o) ==
    \E node \in NewNodes :
        LET s == Self(o)
            r == add_node(s, node)
        IN /\ NodeRoom(s.g)
           /\ Call(o, "add_node", FALSE, r, NoObs)
           /\ issued' = [issued EXCEPT ![o].n = @ \cup {r.ret}]

AddEdge(o) ==
    \E edge \in NewEdges :
        LET s == Self(o)
            r == add_edge(s, edge)
        IN /\ r.res = "ok" => EdgeRoom(s.g)
           /\ Call(o, "add_edge", FALSE, r, NoObs)
           /\ issued' = IF r.res = "ok"
                        THEN [issued EXCEPT ![o].e = @ \cup {r.ret}]
                        ELSE issued

RemoveNode(o) ==
    \E nid \in NodeNames :
        LET s == Self(o)
        IN /\ Call(o, "remove_node", FALSE, remove_node(s, nid),
                   Observe(s, nid))
           /\ UNCHANGED issued

RemoveEdge(o) ==
    \E eid \in EdgeIds :
        /\ Call(o, "remove_edge", FALSE, remove_edge(Self(o), eid), NoObs)
        /\ UNCHANGED issued

UpdateNode(o) ==
    \E node \in NodeUpdates :
        /\ Call(o, "update_node", FALSE, update_node(Self(o), node), NoObs)
        /\ UNCHANGED issued

\* update_edge with a freshly built payload
UpdateEdge(o) ==
    \E edge \in EdgeUpdates(Self(o)) :
        /\ Call(o, "update_edge", FALSE, update_edge(Self(o), edge), NoObs)
        /\ UNCHANGED issued

\* update_edge with a freshly built payload that names other endpoints
UpdateEdgeMoved(o) ==
    \E edge \in EdgeMoves(Self(o)) :
        /\ Call(o, "update_edge", FALSE, update_edge(Self(o), edge), NoObs)
        /\ UNCHANGED issued

\* update_edge with the stored payload object, whose key the caller has set
\* to another value: e = g.get_edge(eid); e.key = key; g.update_edge(e)
UpdateEdgeInPlace(o) ==
    \E eid \in edge_indexes(Self(o).g), key \in Keys :
        LET s == Self(o)
            e == [s.g.ew[eid].w EXCEPT !.key = key]
            s1 == [s EXCEPT !.g = PyUpdateEdge(s.g, eid, e)]
        IN /\ s.g.ew[eid].w.key # key
           /\ Call(o, "update_edge", TRUE, update_edge(s1, e), NoObs)
           /\ UNCHANGED issued

RemoveEdgesBetweenNodes(o) ==
    \E uid \in NodeNames, vid \in NodeNames :
        /\ Call(o, "remove_edges_between_nodes", FALSE,
                remove_edges_between_nodes(Self(o), uid, vid), NoObs)
        /\ UNCHANGED issued

RemoveEdgeBetweenNodes(o) ==
    \E uid \in NodeNames, vid \in NodeNames, key \in Keys :
        /\ Call(o, "remove_edge_between_nodes", FALSE,
                remove_edge_between_nodes(Self(o), uid, vid, key), NoObs)
        /\ UNCHANGED issued

\* H = G.copy(); an earlier copy held as H is dropped
Copy ==
    /\ Copied => (last.op # "copy" /\ calls < MaxAfterCopy)
    /\ objs' = Put(objs, "H", CopyDict(objs["G"], 2))
    /\ heap' = Put(heap, 2, PyCopy(heap[objs["G"].graph]))
    /\ last' = [obj |-> "H", op |-> "copy", same |-> FALSE, ret |-> -1,
                res |-> "ok", pre |-> NoObs]
    /\ issued' = Put(issued, "H", [n |-> {}, e |-> {}])
    /\ UNCHANGED <<cls, dicts, calls>>

\* H = pickle.loads(pickle.dumps(G)): a new object with its own PyDiGraph
\* and its own idmap
Reload ==
    /\ ~Copied
    /\ objs' = Put(objs, "H", IF cls = "str" THEN [graph |-> 2, idmap |-> 2]
                              ELSE [graph |-> 2])
    /\ heap' = Put(heap, 2, Reloaded(Self("G")).g)
    /\ dicts' = IF cls = "str" THEN Put(dicts, 2, Reloaded(Self("G")).idmap) ELSE dicts
    /\ last' = [obj |-> "H", op |-> "reload", same |-> FALSE, ret |-> -1,
                res |-> "ok", pre |-> NoObs]
    /\ issued' = Put(issued, "H", [n |-> {}, e |-> {}])
    /\ UNCHANGED <<cls, calls>>

Next ==
    \/ AddNode("G")
    \/ AddEdge("G")
    \/ RemoveNode("G")
    \/ RemoveEdge("G")
    \/ UpdateNode("G")
    \/ UpdateEdge("G")
    \/ UpdateEdgeMoved("G")
    \/ UpdateEdgeInPlace("G")
    \/ RemoveEdgesBetweenNodes("G")
    \/ RemoveEdgeBetweenNodes("G")

Spec == Init /\ [][Next]_vars

\* the calls that build and take apart a graph, without update_*
NextBuild ==
    \/ AddNode("G")
    \/ AddEdge("G")
    \/ RemoveNode("G")
    \/ RemoveEdge("G")
    \/ RemoveEdgesBetweenNodes("G")

SpecBuild == Init /\ [][NextBuild]_vars

\* a graph created with check_cycle set
NextDag ==
    \/ AddNode("G")
    \/ AddEdge("G")
    \/ RemoveNode("G")
    \/ RemoveEdge("G")

SpecDag == InitDag /\ [][NextDag]_vars

\* the same calls on a graph of any of the three classes
SpecAll == InitAll /\ [][NextBuild]_vars

\* every call with payloads that name the endpoints of the edge they are for
NextKeep ==
    \/ AddNode("G")
    \/ AddEdge("G")
    \/ RemoveNode("G")
    \/ RemoveEdge("G")
    \/ UpdateNode("G")
    \/ UpdateEdge("G")
    \/ RemoveEdgesBetweenNodes("G")
    \/ RemoveEdgeBetweenNodes("G")

\* a canonical graph of either key type
SpecCanon == InitCanon /\ [][NextKeep]_vars

SpecStr == InitStr /\ [][NextKeep]_vars

\* an integer-keyed canonical graph whose caller also passes update_edge the
\* stored payload object after changing its key
NextAlias ==
    \/ NextKeep
    \/ UpdateEdgeInPlace("G")

SpecAlias == Init /\ [][NextAlias]_vars

\* a graph is built, copied, and then the graph and its copy are both used
Build(o) ==
    \/ AddNode(o)
    \/ AddEdge(o)
    \/ RemoveNode(o)
    \/ RemoveEdge(o)
    \/ RemoveEdgesBetweenNodes(o)

Use(o) ==
    \/ Build(o)
    \/ UpdateNode(o)
    \/ UpdateEdge(o)

NextCopy ==
    \/ ~Copied /\ Build("G")
    \/ Copy
    \/ Copied /\ Use("G")
    \/ Copied /\ Use("H")

SpecCopy == InitPlain /\ [][NextCopy]_vars

SpecStrCopy == InitStr /\ [][NextCopy]_vars

\* a canonical graph is built, then pickled and loaded again
NextReload ==
    \/ ~Copied /\ NextBuild
    \/ Reload

SpecReload == InitCanon /\ [][NextReload]_vars

\* ------------------------------------------------------------------------
\* Claims
\* ------------------------------------------------------------------------
\* a string-keyed graph under the calls that build it and the update_edge
\* calls of both kinds
NextMove ==
    \/ AddNode("G")
    \/ AddEdge("G")
    \/ RemoveNode("G")
    \/ RemoveEdge("G")
    \/ UpdateEdge("G")
    \/ UpdateEdgeMoved("G")

SpecMove == InitStr /\ [][NextMove]_vars

\* The canonical graph of retworkx_graph.py under the calls that build it
\* and take it apart.
NextOld ==
    \/ AddNode("G")
    \/ AddEdge("G")
    \/ RemoveNode("G")
    \/ RemoveEdge("G")

SpecOld == InitOld /\ [][NextOld]_vars

\* The graphs handed to the functions of api.py: built and taken apart by
\* the same calls, with up to ApiNodes nodes and ApiEdges edges.
ApiNames == IF cls = "str" THEN StrIds ELSE 0 .. (ApiNodes - 1)
ApiNewNodes == [id : IF cls = "str" THEN StrIds ELSE {-1}, val : {"x"}]
ApiNewEdges == [id : {-1}, source : ApiNames, target : ApiNames, key : Keys]

\* a call on G whose outcome the caller does not keep
ApiCall(r) ==
    /\ heap' = [heap EXCEPT ![objs["G"].graph] = r.g]
    /\ dicts' = IF cls = "str"
                THEN [dicts EXCEPT ![objs["G"].idmap] = r.idmap] ELSE dicts
    /\ UNCHANGED <<cls, objs, last, issued, calls>>

ApiAddNode ==
    \E node \in ApiNewNodes :
        LET s == Self("G")
        IN /\ s.g.nfree # <<>> \/ s.g.nbound < ApiNodes
           /\ ApiCall(add_node(s, node))

ApiAddEdge ==
    \E edge \in ApiNewEdges :
        LET s == Self("G")
            r == add_edge(s, edge)
        IN /\ r.res = "ok" => (s.g.efree # <<>> \/ s.g.ebound < ApiEdges)
           /\ ApiCall(r)

ApiRemoveNode ==
    \E nid \in ApiNames : ApiCall(remove_node(Self("G"), nid))

ApiRemoveEdge ==
    \E eid \in 0 .. (ApiEdges - 1) : ApiCall(remove_edge(Self("G"), eid))

NextApi ==
    \/ ApiAddNode
    \/ ApiAddEdge
    \/ ApiRemoveNode
    \/ ApiRemoveEdge

SpecApi == InitCanon /\ [][NextApi]_vars

\* the internal index an endpoint name stands for, -1 when it stands for none
Index(s, name) ==
    IF cls = "str"
    THEN (IF name \in DOMAIN s.idmap THEN s.idmap[name] ELSE -1)
    ELSE name

\* whether the string-keyed graph s and the integer-keyed graph t hold the
\* same live nodes and edges up to the translation of ids
SameUpToIds(s, t) ==
    /\ num_nodes(s.g) = num_nodes(t.g)
    /\ {s.idmap[k] : k \in DOMAIN s.idmap} = node_indexes(t.g)
    /\ edge_indexes(s.g) = edge_indexes(t.g)
    /\ \A e \in edge_indexes(s.g) \cap edge_indexes(t.g) :
          /\ s.g.ew[e].w.id = t.g.ew[e].w.id
          /\ s.g.ew[e].w.key = t.g.ew[e].w.key
          /\ Index(s, s.g.ew[e].w.source) = t.g.ew[e].w.source
          /\ Index(s, s.g.ew[e].w.target) = t.g.ew[e].w.target

\* A string-keyed graph G and an integer-keyed graph H that are handed the
\* same calls: G with external ids, H with the integer id its add_node
\* returned when G was given that external id.  The dict of H's reference
\* holds that correspondence (external id -> integer id), kept by the
\* caller; a call names only ids that were handed out.
InitPair ==
    /\ cls = "str"
    /\ objs = [o \in {"G", "H"} |->
                  IF o = "G" THEN [graph |-> 1, idmap |-> 1]
                  ELSE [graph |-> 2, idmap |-> 2]]
    /\ heap = [r \in {1, 2} |-> PyDiGraph(FALSE)]
    /\ dicts = [r \in {1, 2} |-> NoFcn]
    /\ last = [obj |-> "G", op |-> "init", same |-> FALSE,
               ret |-> -1, res |-> "ok", pre |-> NoObs]
    /\ issued = [o \in {"G", "H"} |-> [n |-> {}, e |-> {}]]
    /\ calls = 0

IntSelf == [g |-> heap[objs["H"].graph], idmap |-> NoFcn]
Given == dicts[objs["H"].idmap]
IntEdge(edge) ==
    [edge EXCEPT !.source = Given[edge.source], !.target = Given[edge.target]]
GivenEdges == [id : EdgeIds, source : DOMAIN Given, target : DOMAIN Given,
               key : Keys]

\* the effect of one call on both graphs; the calls go on for as long as
\* the two graphs agree
PairCall(rs, ri, given) ==
    /\ SameUpToIds(Self("G"), IntSelf)
    /\ heap' = [heap EXCEPT ![objs["G"].graph] = rs.g, ![objs["H"].graph] = ri.g]
    /\ dicts' = [dicts EXCEPT ![objs["G"].idmap] = rs.idmap,
                              ![objs["H"].idmap] = given]
    /\ UNCHANGED <<cls, objs, last, issued, calls>>

PairAddNode ==
    \E id \in StrIds :
        LET rs == StrAddNode(Self("G"), [id |-> id, val |-> "x"])
            ri == CanonAddNode(IntSelf, [id |-> -1, val |-> "x"])
        IN /\ NodeRoom(Self("G").g) /\ NodeRoom(IntSelf.g)
           /\ PairCall(rs, ri, Put(Given, id, ri.ret))

PairAddEdge ==
    \E edge \in GivenEdges :
        LET rs == StrAddEdge(Self("G"), [edge EXCEPT !.id = -1])
            ri == CanonAddEdge(IntSelf, [IntEdge(edge) EXCEPT !.id = -1])
        IN /\ rs.res = "ok" => EdgeRoom(Self("G").g)
           /\ ri.res = "ok" => EdgeRoom(IntSelf.g)
           /\ PairCall(rs, ri, Given)

\* update_edge with a payload that names the endpoints the stored one names
PairUpdateEdge ==
    \E edge \in GivenEdges \cap EdgeUpdates(Self("G")) :
        PairCall(StrUpdateEdge(Self("G"), edge),
                 CanonUpdateEdge(IntSelf, IntEdge(edge)), Given)

PairRemoveNode ==
    \E nid \in DOMAIN Given :
        PairCall(StrRemoveNode(Self("G"), nid),
                 BaseRemoveNode(IntSelf, Given[nid]), Given)

PairRemoveEdge ==
    \E eid \in EdgeIds :
        PairCall(BaseRemoveEdge(Self("G"), eid), BaseRemoveEdge(IntSelf, eid),
                 Given)

PairRemoveEdgeBetweenNodes ==
    \E uid \in DOMAIN Given, vid \in DOMAIN Given, key \in Keys :
        PairCall(StrRemoveEdgeBetweenNodes(Self("G"), uid, vid, key),
                 CanonRemoveEdgeBetweenNodes(IntSelf, Given[uid], Given[vid],
                                             key), Given)

NextPair ==
    \/ PairAddNode
    \/ PairAddEdge
    \/ PairUpdateEdge
    \/ PairRemoveNode
    \/ PairRemoveEdge
    \/ PairRemoveEdgeBetweenNodes

SpecPair == InitPair /\ [][NextPair]_vars

G == Self("G")
H == Self("H")
After(r) == [g |-> r.g, idmap |-> r.idmap]

\* C1 (as claimed): on an integer-keyed canonical graph check_integrity() is
\* true after every sequence of calls, update_edge included.
C1_IntegrityAfterAnyCalls == check_integrity(G) = "True"

\* two live edges between the same stored endpoints carry the same key
DuplicateKey(g) ==
    \E e1 \in DOMAIN g.ew, e2 \in DOMAIN g.ew :
        /\ e1 # e2
        /\ g.ew[e1].source = g.ew[e2].source
        /\ g.ew[e1].target = g.ew[e2].target
        /\ g.ew[e1].w.key = g.ew[e2].w.key

\* C2 (as claimed): no two live edges with the same (source, target) have the
\* same key, also after update_edge was given the stored object with its key
\* changed in place.
C2_KeysUniquePerPair == ~DuplicateKey(G.g)

\* C3: on an integer- or string-keyed canonical graph, add_edge called twice
\* with the same (source, target, key) between existing endpoints returns the
\* same edge id both times, and the second call changes neither num_edges()
\* nor any stored edge or node.
C3_AddEdgeTwiceSameId ==
    \A edge \in NewEdges :
        LET r1 == add_edge(G, edge)
            r2 == add_edge(After(r1), edge)
        IN (/\ Index(G, edge.source) \in node_indexes(G.g)
            /\ Index(G, edge.target) \in node_indexes(G.g))
           => /\ r1.res \in {"ok", "dup"}
              /\ r2.res = "dup"
              /\ r2.ret = r1.ret
              /\ num_edges(r2.g) = num_edges(r1.g)
              /\ r2.g = r1.g
              /\ r2.idmap = r1.idmap

\* a string-keyed graph whose last add_edge call found the key already there
C3_SecondAddEdgeSeen ==
    /\ cls = "str"
    /\ last.op = "add_edge"
    /\ last.res = "dup"
    /\ last.ret \in edge_indexes(G.g)

\* C4 (as claimed): the id add_node returns is greater than every node id
\* returned before, and the id an inserting add_edge returns differs from
\* every edge id returned before.
C4_IdsNeverReused ==
    [][/\ last'.op = "add_node"
          => \A i \in issued["G"].n : last'.ret > i
       /\ (last'.op = "add_edge" /\ last'.res = "ok")
          => last'.ret \notin issued["G"].e]_vars

\* the edges of g that touch node n
Incident(g, n) == {e \in DOMAIN g.ew : g.ew[e].source = n \/ g.ew[e].target = n}

\* C5: remove_node(n) on a live node n removes n and exactly the edges that
\* have n as source or target, self-loops and parallel edges included; every
\* other node and edge keeps its id, endpoints and payload, and the adjacency
\* lists of the remaining nodes keep their order without the removed edges.
C5_RemoveNodeFrame ==
    \A n \in node_indexes(G.g) :
        LET r == remove_node(G, n)
            gone == Incident(G.g, n)
        IN /\ r.res = "ok"
           /\ r.g.nw = Drop(G.g.nw, n)
           /\ r.g.ew = [e \in DOMAIN G.g.ew \ gone |-> G.g.ew[e]]
           /\ r.g.adj = Without(G.g.adj, gone)
           /\ \A m \in node_indexes(r.g) :
                  /\ OutList(r.g, m) = Without(OutList(G.g, m), gone)
                  /\ InList(r.g, m) = Without(InList(G.g, m), gone)

\* remove_node has just removed a node with a self-loop and left the other
\* node with its own edge
C5_RemovedNodeWithLoop ==
    /\ last.op = "remove_node"
    /\ last.pre.live
    /\ last.pre.loops = 1
    /\ num_nodes(G.g) = 1
    /\ num_edges(G.g) = 1

\* C6 (as claimed): num_edges() after remove_node(n) equals num_edges() before
\* minus degree(n), also when n has a self-loop.
C6_EdgesDropByDegree ==
    (last.op = "remove_node" /\ last.pre.live)
       => num_edges(G.g) = last.pre.num_edges - last.pre.degree

\* C6 (amended): num_edges() after remove_node(n) equals num_edges() before
\* minus the number of edges that touch n, which is degree(n) minus the number
\* of self-loops at n, since degree(n) counts a self-loop twice.
C6_EdgesDropByIncident ==
    (last.op = "remove_node" /\ last.pre.live)
       => num_edges(G.g) =
             last.pre.num_edges - (last.pre.degree - last.pre.loops)

\* remove_node has just removed a node that had a self-loop
C6_RemovedSelfLoop ==
    /\ last.op = "remove_node"
    /\ last.pre.live
    /\ last.pre.loops >= 1
    /\ last.pre.degree > last.pre.loops

\* C7: after g = G.copy() on a base or integer-keyed canonical graph, a call
\* of add_node, add_edge, remove_node, remove_edge, update_node or update_edge
\* on g leaves the nodes, edges and adjacency of G as they were, and a call on
\* G leaves those of g as they were.
C7_CopyIndependent ==
    [][(Copied /\ last'.op # "copy")
          => /\ last'.obj = "H" => G' = G
             /\ last'.obj = "G" => H' = H]_vars

\* a call on the copy has removed a live node and the original still has it
C7_CopyChangedAlone ==
    /\ Copied
    /\ last.obj = "H"
    /\ last.op = "remove_node"
    /\ last.pre.live
    /\ num_nodes(H.g) < num_nodes(G.g)

\* C8: for an integer-keyed canonical graph G built by add_node, add_edge,
\* remove_node, remove_edge and remove_edges_between_nodes, G.copy() == G,
\* G.copy().check_integrity() is true, and the copy has the node ids and edge
\* ids of G, with the gaps earlier removals left.
C8_CopyEqualAndSound ==
    (cls = "int" /\ last.op = "copy")
       => /\ Eq(H, G)
          /\ check_integrity(H) = "True"
          /\ node_indexes(H.g) = node_indexes(G.g)
          /\ edge_indexes(H.g) = edge_indexes(G.g)

\* an integer-keyed graph has just been copied with a removed node's id
\* vacant below a live node that has an edge
C8_CopiedWithGap ==
    /\ cls = "int"
    /\ last.op = "copy"
    /\ node_indexes(H.g) = {1}
    /\ num_edges(H.g) = 1

\* C9 (as claimed): for a string-keyed canonical graph G with at least one
\* node, G.copy() == G and G.copy().check_integrity() is true.
C9_StrCopyEqual ==
    (last.op = "copy" /\ num_nodes(G.g) >= 1)
       => /\ Eq(H, G)
          /\ check_integrity(H) = "True"

\* what a further G.copy() would hold, given the graph and dictionary of G
CopyView(s) == [g |-> PyCopy(s.g), idmap |-> s.idmap]

\* C10 (as claimed): after g = G.copy() on a string-keyed canonical graph,
\* add_node and remove_node on g leave the idmap, the node set and the
\* check_integrity() result of G as they were, and calls on G leave those of
\* g; a node removed from g can then be removed from a second copy of G too.
C10_StrCopyKeepsIdmap ==
    [][(Copied /\ last'.op \in {"add_node", "remove_node"})
          => /\ last'.obj = "H"
                => /\ G'.idmap = G.idmap
                   /\ node_indexes(G'.g) = node_indexes(G.g)
                   /\ check_integrity(G') = check_integrity(G)
                   /\ \A nid \in DOMAIN H.idmap \ DOMAIN H'.idmap :
                          remove_node(CopyView(G'), nid).res = "ok"
             /\ last'.obj = "G"
                => /\ H'.idmap = H.idmap
                   /\ node_indexes(H'.g) = node_indexes(H.g)
                   /\ check_integrity(H') = check_integrity(H)]_vars

\* the id map is one-to-one between the external ids and exactly the live
\* node indices, each entry pointing to the node that carries the id
IdmapBijection(s) ==
    /\ \A k \in DOMAIN s.idmap :
          /\ s.idmap[k] \in node_indexes(s.g)
          /\ s.g.nw[s.idmap[k]].id = k
    /\ \A nid \in node_indexes(s.g) :
          Cardinality({k \in DOMAIN s.idmap : s.idmap[k] = nid}) = 1

\* C11 (as claimed): in a string-keyed canonical graph the id map is a
\* bijection between the external ids and exactly the live node indices after
\* any sequence of calls, add_node with an already registered id included.
C11_IdmapBijection == IdmapBijection(G)

\* C12: update_edge(edge) whose key differs from the key stored for edge.id,
\* while a live edge between the endpoints edge names already has the new
\* key, raises ValueError and leaves every stored payload, the edge count,
\* the adjacency and the id map as they were.
C12_UpdateEdgeDuplicateKey ==
    \A edge \in AllEdges :
        LET r == update_edge(G, edge)
        IN (/\ edge.id \in edge_indexes(G.g)
            /\ G.g.ew[edge.id].w.key # edge.key
            /\ \E e2 \in edge_indexes(G.g) :
                  /\ G.g.ew[e2].source = Index(G, edge.source)
                  /\ G.g.ew[e2].target = Index(G, edge.target)
                  /\ G.g.ew[e2].w.key = edge.key)
           => /\ r.res = "ValueError"
              /\ r.g = G.g
              /\ r.idmap = G.idmap

\* update_edge has just been refused for a duplicate key, with two edges live
C12_UpdateRefused ==
    /\ last.op = "update_edge"
    /\ last.res = "ValueError"
    /\ num_edges(G.g) = 2

\* C13: on a base or integer-keyed canonical graph, remove_node(id) with an
\* id that is not live (never returned, or already removed) and
\* remove_edge(id) with an edge id that is not live raise nothing and leave
\* nodes, edges, ids and adjacency as they were; so either removal called
\* twice in a row leaves what calling it once leaves.
C13_RemoveAbsentIsNoOp ==
    \A o \in DOMAIN objs :
        /\ \A nid \in 0 .. MaxNodes :
              LET r1 == remove_node(Self(o), nid)
                  r2 == remove_node(After(r1), nid)
              IN /\ r1.res = "ok" /\ r2.res = "ok"
                 /\ nid \notin node_indexes(Self(o).g) => r1.g = Self(o).g
                 /\ r2.g = r1.g
        /\ \A eid \in 0 .. MaxEdges :
              LET r1 == remove_edge(Self(o), eid)
                  r2 == remove_edge(After(r1), eid)
              IN /\ r1.res = "ok" /\ r2.res = "ok"
                 /\ eid \notin edge_indexes(Self(o).g) => r1.g = Self(o).g
                 /\ r2.g = r1.g

\* remove_node has just been called with the id of a node removed before,
\* on a graph that still has a node
C13_RemovedAgain ==
    /\ last.obj = "G"
    /\ last.op = "remove_node"
    /\ ~last.pre.live
    /\ last.res = "ok"
    /\ G.g.nfree # <<>>
    /\ num_nodes(G.g) >= 1

\* C14 (as claimed): on a string-keyed canonical graph, remove_node(s) with an
\* external id s that is not mapped raises nothing and leaves the id map,
\* the nodes and the edges as they were.
C14_StrRemoveUnmapped ==
    [][(last'.op = "remove_node" /\ ~last'.pre.live)
          => /\ last'.res = "ok"
             /\ G' = G]_vars

\* the live edges from u to v whose payload carries the key
Keyed(s, u, v, key) ==
    {e \in edge_indexes(s.g) :
        /\ s.g.ew[e].source = Index(s, u)
        /\ s.g.ew[e].target = Index(s, v)
        /\ s.g.ew[e].w.key = key}

\* C15 (as claimed): in a canonical graph, remove_edge_between_nodes(u, v,
\* key) between live nodes removes the one edge from u to v with the key when
\* there is one, leaving every other edge as it was, and raises nothing and
\* changes nothing when no edge from u to v has the key.
C15_RemoveKeyedEdge ==
    \A u \in NodeNames, v \in NodeNames, key \in Keys :
        LET r == remove_edge_between_nodes(G, u, v, key)
            found == Keyed(G, u, v, key)
        IN (/\ Index(G, u) \in node_indexes(G.g)
            /\ Index(G, v) \in node_indexes(G.g))
           => /\ r.res = "ok"
              /\ r.idmap = G.idmap
              /\ r.g.nw = G.g.nw
              /\ found = {} => r.g = G.g
              /\ found # {} =>
                    \E e \in found :
                        r.g.ew = [x \in edge_indexes(G.g) \ {e} |-> G.g.ew[x]]

\* C16: add_edge whose source or target is not a live node raises IndexError
\* (KeyError for an unmapped external id), returns no edge id and stores
\* nothing: num_edges(), the stored payloads with their ids, the adjacency
\* lists and the id map are as before the call.
C16_AddEdgeDeadEndpoint ==
    \A edge \in NewEdges :
        LET r == add_edge(G, edge)
        IN (\/ Index(G, edge.source) \notin node_indexes(G.g)
            \/ Index(G, edge.target) \notin node_indexes(G.g))
           => /\ r.res \in {"IndexError", "KeyError"}
              /\ r.ret = -1
              /\ num_edges(r.g) = num_edges(G.g)
              /\ r.g = G.g
              /\ r.idmap = G.idmap

\* add_edge has just failed on a graph that has a node and an edge
C16_AddEdgeRefused ==
    /\ last.op = "add_edge"
    /\ last.res \in {"IndexError", "KeyError"}
    /\ num_nodes(G.g) = 1
    /\ num_edges(G.g) = 1

\* C17 (as claimed): in a graph created with check_cycle set, add_edge whose
\* source is reachable from its target (source equal to target included)
\* raises the cycle error and inserts nothing, and has_cycle(g) is false in
\* every state add_node, add_edge, remove_node and remove_edge lead to.
C17_CheckCycleKeepsDag ==
    /\ ~has_cycle(G)
    /\ \A edge \in NewEdges :
          LET r == add_edge(G, edge)
          IN (/\ edge.source \in node_indexes(G.g)
              /\ edge.target \in node_indexes(G.g)
              /\ Keyed(G, edge.source, edge.target, edge.key) = {}
              /\ HasPath(G.g, edge.target, edge.source))
             => /\ r.res = "DAGWouldCycle"
                /\ r.g = G.g

\* the same live nodes as (id, payload) pairs and the same live edges as
\* (id, source, target, payload) tuples
SameContent(a, b) ==
    /\ {<<n, a.g.nw[n]>> : n \in node_indexes(a.g)}
          = {<<n, b.g.nw[n]>> : n \in node_indexes(b.g)}
    /\ {<<e, a.g.ew[e].source, a.g.ew[e].target, a.g.ew[e].w>> :
            e \in edge_indexes(a.g)}
          = {<<e, b.g.ew[e].source, b.g.ew[e].target, b.g.ew[e].w>> :
                e \in edge_indexes(b.g)}

\* C18 (as claimed): for any two graphs A and B, A == B is true exactly when
\* they have the same live nodes as (id, payload) pairs and the same live
\* edges as (id, source, target, payload) tuples.
C18_EqualIffSameContent ==
    Copied => /\ Eq(G, H) <=> SameContent(G, H)
              /\ Eq(H, G) <=> SameContent(H, G)

\* the keys of the live edges from node index u to node index v
KeysBetween(g, u, v) == {g.ew[e].w.key : e \in {x \in edge_indexes(g) :
                                g.ew[x].source = u /\ g.ew[x].target = v}}

\* C19: the graph loaded from the pickled form of a canonical graph G, also
\* after nodes or edges were removed from G, has the node ids and node
\* payloads of G, the same id map, the same num_nodes() and num_edges(), and
\* between every ordered pair of nodes the same set of edge keys; edge ids
\* may differ.
C19_ReloadKeepsContent ==
    last.op = "reload"
       => /\ node_indexes(H.g) = node_indexes(G.g)
          /\ H.g.nw = G.g.nw
          /\ H.idmap = G.idmap
          /\ num_nodes(H.g) = num_nodes(G.g)
          /\ num_edges(H.g) = num_edges(G.g)
          /\ \A u \in NodeIds, v \in NodeIds :
                KeysBetween(H.g, u, v) = KeysBetween(G.g, u, v)

\* a graph whose only edge has id 1 and whose only node has index 1 has been
\* reloaded, and the edge has id 0 in the loaded graph
C19_ReloadedRenumbered ==
    /\ last.op = "reload"
    /\ node_indexes(G.g) = {1}
    /\ edge_indexes(G.g) = {1}
    /\ edge_indexes(H.g) = {0}

\* C20: when check_integrity() is true of a canonical graph, it is true of
\* the graph loaded from its pickled form: every edge payload's id is the
\* edge's new index, its source and target match the stored endpoints, and
\* for the string layer the id map is one-to-one onto the live node indices.
C20_ReloadKeepsIntegrity ==
    (last.op = "reload" /\ check_integrity(G) = "True")
       => /\ check_integrity(H) = "True"
          /\ \A e \in edge_indexes(H.g) : H.g.ew[e].w.id = e
          /\ cls = "str" => IdmapBijection(H)

\* a string-keyed graph with a removed node and an edge whose id changes has
\* been reloaded
C20_ReloadedStrRenumbered ==
    /\ cls = "str"
    /\ last.op = "reload"
    /\ check_integrity(G) = "True"
    /\ G.g.nfree # <<>>
    /\ edge_indexes(G.g) = {1}
    /\ edge_indexes(H.g) = {0}

\* the string ids not in the id map, and the pairs naming at least one
Unmapped(s) == StrIds \ DOMAIN s.idmap
UnmappedPairs(s) ==
    {p \in StrIds \X StrIds : p[1] \in Unmapped(s) \/ p[2] \in Unmapped(s)}

\* the operations of the string layer that raise KeyError for an unmapped id
C21_LookupsRaise ==
    /\ \A nid \in Unmapped(G) :
          /\ StrGetNode(G, nid).res = "KeyError"
          /\ StrSuccessors(G, nid).res = "KeyError"
          /\ StrPredecessors(G, nid).res = "KeyError"
          /\ StrDegree(G, nid).res = "KeyError"
          /\ StrInEdges(G, nid).res = "KeyError"
          /\ StrOutEdges(G, nid).res = "KeyError"
    /\ \A p \in UnmappedPairs(G) :
          /\ StrHasEdgesBetweenNodes(G, p[1], p[2]).res = "KeyError"
          /\ StrRemoveEdgesBetweenNodes(G, p[1], p[2]).res = "KeyError"
          /\ \A key \in Keys :
                /\ StrGetEdgeBetweenNodes(G, p[1], p[2], key).res = "KeyError"
                /\ StrAddEdge(G, [id |-> -1, source |-> p[1], target |-> p[2],
                                  key |-> key]).res = "KeyError"

LiveNames(s) == IF cls = "str" THEN DOMAIN s.idmap ELSE node_indexes(s.g)
NodeOf(s, x) == IF cls = "str" THEN s.idmap[x] ELSE x

Range(q) == {q[i] : i \in 1 .. Len(q)}

\* the sequences of 1 .. n live edges in which each edge starts where the one
\* before it ends
Chains(g, n) ==
    {p \in UNION {[1 .. l -> edge_indexes(g)] : l \in 1 .. n} :
        \A i \in 1 .. Len(p) - 1 : g.ew[p[i]].target = g.ew[p[i + 1]].source}

\* the simple paths from node u to another node v, as sequences of edges:
\* chains from u to v that visit no node twice
SimplePaths(g, u, v) ==
    {p \in Chains(g, ApiNodes) :
        /\ g.ew[p[1]].source = u
        /\ g.ew[p[Len(p)]].target = v
        /\ \A i \in 1 .. Len(p) : g.ew[p[i]].target # u
        /\ \A i, j \in 1 .. Len(p) :
              i # j => g.ew[p[i]].target # g.ew[p[j]].target}

\* C22: digraph_all_simple_paths(g, s, t, cutoff=k) returns no path with
\* more than k edges, returns every simple path from s to t with at most k
\* edges, and returns only paths that the call without cutoff returns, for
\* every k >= 0.
C22_CutoffBoundsPaths ==
    \A build \in Builds, s \in LiveNames(G), t \in LiveNames(G),
       k \in 0 .. ApiNodes :
        LET r == digraph_all_simple_paths(G, s, t, <<>>, <<k>>, build)
            all == digraph_all_simple_paths(G, s, t, <<>>, <<>>, build)
        IN r.res = "ok" =>
              /\ \A i \in 1 .. Len(r.ret) : Len(r.ret[i]) <= k
              /\ s # t =>
                    \A p \in SimplePaths(G.g, NodeOf(G, s), NodeOf(G, t)) :
                        Len(p) <= k => EdgeData(G.g, p) \in Range(r.ret)
              /\ Range(r.ret) \subseteq Range(all.ret)

\* the payload of a test edge
TestEdge(id, source, target) ==
    [id |-> id, source |-> source, target |-> target, key |-> ""]

\* C23: for distinct nodes s and t, digraph_all_simple_paths(g, s, t) without
\* min_depth and cutoff returns exactly the edge sequences that lead from s to
\* t, each edge starting where the one before ends, with no node visited
\* twice; on the graph 0->1, 0->2, 0->3, 1->2, 2->3 it returns [0->3],
\* [0->2, 2->3] and [0->1, 1->2, 2->3].
C23_AllSimplePathsExact ==
    /\ \A build \in Builds, s \in LiveNames(G), t \in LiveNames(G) :
          LET r == digraph_all_simple_paths(G, s, t, <<>>, <<>>, build)
          IN s # t =>
                /\ r.res = "ok"
                /\ Range(r.ret) =
                      {EdgeData(G.g, p) :
                          p \in SimplePaths(G.g, NodeOf(G, s), NodeOf(G, t))}
    /\ \A build \in Builds :
          all_simple_paths(graph2, 0, 3, <<>>, <<>>, build, FALSE) =
              Value(<< <<TestEdge(2, 0, 3)>>,
                       <<TestEdge(1, 0, 2), TestEdge(4, 2, 3)>>,
                       <<TestEdge(0, 0, 1), TestEdge(3, 1, 2),
                         TestEdge(4, 2, 3)>> >>)

\* two nodes are joined by an edge and by a path of two edges, and both
\* paths are returned
C23_DirectAndTwoHops ==
    \E s \in LiveNames(G), t \in LiveNames(G) :
        LET r == digraph_all_simple_paths(G, s, t, <<>>, <<>>, "wrapping")
        IN /\ s # t
           /\ r.res = "ok"
           /\ \E i, j \in 1 .. Len(r.ret) :
                 Len(r.ret[i]) = 1 /\ Len(r.ret[j]) = 2

\* the simple node paths from s to another node t: sequences of distinct
\* live nodes, each joined to the next by at least one edge
NodePaths(s, a, b) ==
    {n \in UNION {[1 .. l -> LiveNames(s)] : l \in 2 .. ApiNodes} :
        /\ n[1] = a /\ n[Len(n)] = b
        /\ \A i, j \in 1 .. Len(n) : i # j => n[i] # n[j]
        /\ \A i \in 1 .. Len(n) - 1 :
              Between(s.g, NodeOf(s, n[i]), NodeOf(s, n[i + 1])) # <<>>}

\* the nodes an edge path names, and the number of ways to pick one edge
\* for each hop of a node path
NodesAlong(path) ==
    <<path[1].source>> \o [i \in 1 .. Len(path) |-> path[i].target]

RECURSIVE Combinations(_, _)
Combinations(s, n) ==
    IF Len(n) < 2 THEN 1
    ELSE Len(Between(s.g, NodeOf(s, n[1]), NodeOf(s, n[2])))
            * Combinations(s, Tail(n))

\* C24: with parallel edges, digraph_all_simple_paths emits for each simple
\* node path from source to target one edge path per combination of parallel
\* edges over its hops (the product of the hop multiplicities), and no edge
\* path appears twice, even when the search reports a node path repeatedly.
C24_OnePathPerCombination ==
    \A build \in Builds, s \in LiveNames(G), t \in LiveNames(G) :
        LET r == digraph_all_simple_paths(G, s, t, <<>>, <<>>, build)
        IN /\ r.res = "ok"
           /\ Cardinality(Range(r.ret)) = Len(r.ret)
           /\ s # t =>
                 \A n \in NodePaths(G, s, t) :
                     Cardinality({i \in 1 .. Len(r.ret) :
                                     NodesAlong(r.ret[i]) = n})
                         = Combinations(G, n)

\* a path of two hops has two parallel edges on a hop, the search reported a
\* node path twice, and two edge paths along the same nodes are returned
C24_ParallelHop ==
    \E s \in LiveNames(G), t \in LiveNames(G) :
        LET r == digraph_all_simple_paths(G, s, t, <<>>, <<>>, "wrapping")
            raw == PyAllSimplePaths(G.g, NodeOf(G, s), NodeOf(G, t), <<>>,
                                    <<>>, "wrapping")
        IN /\ s # t
           /\ Len(raw.ret) > Cardinality(Range(raw.ret))
           /\ \E i, j \in 1 .. Len(r.ret) :
                 /\ i # j
                 /\ Len(r.ret[i]) = 2
                 /\ NodesAlong(r.ret[i]) = NodesAlong(r.ret[j])

\* C25: every path digraph_all_simple_paths(g, s, t, min_depth=m) returns has
\* at least m edges, and every simple path from s to t with at least m edges
\* is returned, for every m >= 0: min_depth counts edges, like cutoff.
C25_MinDepthCountsEdges ==
    \A build \in Builds, s \in LiveNames(G), t \in LiveNames(G),
       m \in 0 .. ApiNodes :
        LET r == digraph_all_simple_paths(G, s, t, <<m>>, <<>>, build)
        IN r.res = "ok" =>
              /\ \A i \in 1 .. Len(r.ret) : Len(r.ret[i]) >= m
              /\ s # t =>
                    \A p \in SimplePaths(G.g, NodeOf(G, s), NodeOf(G, t)) :
                        Len(p) >= m => EdgeData(G.g, p) \in Range(r.ret)

\* the directed cycles of a graph: chains of live edges that end where they
\* start
Cycles(g) ==
    {p \in Chains(g, ApiEdges) : g.ew[p[Len(p)]].target = g.ew[p[1]].source}

\* C26: has_cycle(g) is true exactly when the graph has a directed cycle, a
\* self-loop included; it is true on the graph 0->1, 1->2, 2->3, 3->1, 4->5,
\* 5->4, 4->6 and false on every graph whose edges all lead from a smaller
\* to a larger node index.
C26_HasCycleIffCycle ==
    /\ has_cycle(G) <=> Cycles(G.g) # {}
    /\ has_cycle(graph4)
    /\ ~has_cycle(graph2) /\ ~has_cycle(graph3)
    /\ (\A e \in edge_indexes(G.g) : G.g.ew[e].source < G.g.ew[e].target)
          => ~has_cycle(G)

\* the only cycle of the graph is a self-loop, and has_cycle reports it
C26_OnlySelfLoop ==
    /\ Cycles(G.g) # {}
    /\ \A p \in Cycles(G.g) : \A i \in 1 .. Len(p) :
          G.g.ew[p[i]].source = G.g.ew[p[i]].target
    /\ num_edges(G.g) > 1
    /\ has_cycle(G)

\* the nodes a cycle runs through that can be reached from node n
CyclesFrom(g, n) ==
    {p \in Cycles(g) : g.ew[p[1]].source \in ReachSet(g, {n})}

\* what C27 asks of the answer r to digraph_find_cycle(s, x)
FoundCycle(s, x, r) ==
    /\ r.res = "ok"
    /\ r.ret # <<>> <=> CyclesFrom(s.g, NodeOf(s, x)) # {}
    /\ \A i \in 1 .. Len(r.ret) :
          /\ \E e \in edge_indexes(s.g) : s.g.ew[e].w = r.ret[i]
          /\ r.ret[i].target = r.ret[(i % Len(r.ret)) + 1].source
          /\ r.ret[i].source \in LiveNames(s)
          /\ NodeOf(s, r.ret[i].source) \in ReachSet(s.g, {NodeOf(s, x)})

\* C27: for a live node s, digraph_find_cycle(g, s) returns a non-empty
\* sequence exactly when a directed cycle can be reached from s; the sequence
\* is a closed chain of live edges whose nodes can all be reached from s; a
\* cycle that cannot be reached from s is not reported (empty result for
\* node 6 of the graph 0->1, 1->2, 2->3, 3->1, 4->5, 5->4, 4->6).
C27_FindCycleScoped ==
    /\ \A x \in LiveNames(G) : FoundCycle(G, x, digraph_find_cycle(G, x))
    /\ find_cycle(graph4, 6, FALSE) = Value(<<>>)

\* whether an undirected path joins two nodes: a sequence of nodes in which
\* neighbours are joined by an edge in either direction
Joined(g, a, b) ==
    \E n \in UNION {[1 .. l -> node_indexes(g)] : l \in 1 .. ApiNodes} :
        /\ n[1] = a /\ n[Len(n)] = b
        /\ \A i \in 1 .. Len(n) - 1 :
              \/ Between(g, n[i], n[i + 1]) # <<>>
              \/ Between(g, n[i + 1], n[i]) # <<>>

\* C28: on a graph with at least one node, weakly_connected_components(g)
\* is a partition of the live node ids: every live id is in exactly one
\* component, no removed id is in any, and two ids share a component exactly
\* when a path that ignores edge direction joins them.
C28_ComponentsPartition ==
    LET r == weakly_connected_components(G)
    IN num_nodes(G.g) > 0 =>
          /\ r.res = "ok"
          /\ \A x \in LiveNames(G) :
                Cardinality({i \in 1 .. Len(r.ret) : x \in r.ret[i]}) = 1
          /\ \A i \in 1 .. Len(r.ret) : r.ret[i] \subseteq LiveNames(G)
          /\ \A x \in LiveNames(G), y \in LiveNames(G) :
                (\E i \in 1 .. Len(r.ret) : x \in r.ret[i] /\ y \in r.ret[i])
                    <=> Joined(G.g, NodeOf(G, x), NodeOf(G, y))
    /\ connected_components(graph3, FALSE) = Value(<<{0, 1, 2, 3}, {4, 5}>>)

C30_ConnectedIffOneComponent ==
    num_nodes(G.g) > 0 =>
        /\ is_weakly_connected(G).res = "ok"
        /\ weakly_connected_components(G).res = "ok"
        /\ is_weakly_connected(G).ret
              <=> Len(weakly_connected_components(G).ret) = 1

\* a graph of three nodes in one component that no single node reaches
\* along the edges, and is_weakly_connected is true
C30_ConnectedAgainstDirection ==
    /\ num_nodes(G.g) = 3
    /\ \A n \in node_indexes(G.g) : ReachSet(G.g, {n}) # node_indexes(G.g)
    /\ is_weakly_connected(G) = Value(TRUE)
    /\ Len(weakly_connected_components(G).ret) = 1

\* the id a caller reads on a live node: the id its payload carries
IdOf(s, n) == IF cls = "str" THEN s.g.nw[n].id ELSE n

\* the ids of the nodes along a chain of edges
NamesAlong(s, c) ==
    <<IdOf(s, s.g.ew[c[1]].source)>>
        \o [i \in 1 .. Len(c) |-> IdOf(s, s.g.ew[c[i]].target)]

\* C31: on an acyclic graph every possible result of dag_longest_path(g) is
\* a sequence of ids of live nodes, each consecutive pair joined by a live
\* edge in that direction (the ids read along a chain of live edges, or one
\* live node, or nothing on a graph without nodes), and no directed path of
\* the graph has more edges; on a graph with a cycle the call fails with
\* DAGHasCycle.  The longest path of the graph 0->1, 1->2, 0->2 is 0, 1, 2.
C31_LongestPath ==
    /\ \A r \in dag_longest_path(G) :
          IF has_cycle(G) THEN r.res = "DAGHasCycle"
          ELSE /\ r.res = "ok"
               /\ \/ r.ret = <<>> /\ num_nodes(G.g) = 0
                  \/ \E n \in node_indexes(G.g) : r.ret = <<IdOf(G, n)>>
                  \/ \E c \in Chains(G.g, ApiNodes) : r.ret = NamesAlong(G, c)
               /\ \A c \in Chains(G.g, ApiNodes) : Len(c) <= Len(r.ret) - 1
    /\ longest_path(parse_graph(3, <<<<0, 1>>, <<1, 2>>, <<0, 2>>>>), FALSE)
          = {Value(<<0, 1, 2>>)}

\* an acyclic graph in which a two-edge path and a newer one-edge path end
\* in the same node
C31_ShortcutBesideLongerPath ==
    /\ ~has_cycle(G)
    /\ \E a, b, c \in node_indexes(G.g) :
          /\ Cardinality({a, b, c}) = 3
          /\ Between(G.g, a, b) # <<>> /\ Between(G.g, b, c) # <<>>
          /\ Between(G.g, a, c) # <<>>
          /\ Sources(G.g, InList(G.g, c))[1] = a

\* C32 (as claimed): on the canonical graph of retworkx_graph.py, add_edge
\* called twice with the same (source, target, key) between live endpoints
\* returns the same edge id both times and leaves num_edges() as the first
\* call left it, and no two live edges of a pair share a key.
C32_OldAddEdgeTwiceSameId ==
    /\ ~DuplicateKey(G.g)
    /\ \A edge \in NewEdges :
          LET r1 == add_edge(G, edge)
              r2 == add_edge(After(r1), edge)
          IN (edge.source \in node_indexes(G.g)
                /\ edge.target \in node_indexes(G.g))
             => /\ r2.ret = r1.ret
                /\ num_edges(r2.g) = num_edges(r1.g)
                /\ OldCanonGetEdgeBetweenNodes(After(r2), edge.source,
                       edge.target, edge.key) = <<r2.g.ew[r2.ret].w>>

\* C33 (as claimed): update_node and update_edge, when they succeed, change
\* only the payload stored at that id: the node and edge ids, the endpoints
\* the edges have in storage, the id, source and target the stored payload
\* carries, every other node and edge and the adjacency lists are as before,
\* also when the payload handed to update_edge names another source or
\* target than the stored one.
C33_UpdateKeepsIdentity ==
    /\ \A node \in NodeUpdates :
          LET r == update_node(G, node)
              n == Index(G, node.id)
          IN r.res = "ok" =>
                /\ r.idmap = G.idmap
                /\ DOMAIN r.g.nw = DOMAIN G.g.nw
                /\ r.g.nw[n].id = G.g.nw[n].id
                /\ \A m \in DOMAIN G.g.nw \ {n} : r.g.nw[m] = G.g.nw[m]
                /\ r.g.ew = G.g.ew
                /\ r.g.adj = G.g.adj
    /\ \A edge \in AllEdges :
          LET r == update_edge(G, edge)
          IN r.res = "ok" =>
                /\ r.idmap = G.idmap
                /\ r.g.nw = G.g.nw
                /\ r.g.adj = G.g.adj
                /\ DOMAIN r.g.ew = DOMAIN G.g.ew
                /\ \A e \in DOMAIN G.g.ew \ {edge.id} : r.g.ew[e] = G.g.ew[e]
                /\ r.g.ew[edge.id].source = G.g.ew[edge.id].source
                /\ r.g.ew[edge.id].target = G.g.ew[edge.id].target
                /\ r.g.ew[edge.id].w.id = G.g.ew[edge.id].w.id
                /\ r.g.ew[edge.id].w.source = G.g.ew[edge.id].w.source
                /\ r.g.ew[edge.id].w.target = G.g.ew[edge.id].w.target

\* the orders in which the nodes of a set can be listed
Listings(S) ==
    {q \in [1 .. Cardinality(S) -> S] : \A i, j \in DOMAIN q : i # j => q[i] # q[j]}

\* whether the entries list the nodes ns, one entry each, and the entry of
\* node ns[i] maps each key to the payload of the edge with that key among
\* the edges es(ns[i])
Grouped(s, entries, ns, es(_)) ==
    /\ Len(entries) = Len(ns)
    /\ \A i \in 1 .. Len(ns) :
          LET payloads == {s.g.ew[e].w : e \in Range(es(ns[i]))}
          IN /\ entries[i].node = s.g.nw[ns[i]]
             /\ {entries[i].edges[k] : k \in DOMAIN entries[i].edges} = payloads
             /\ Cardinality(DOMAIN entries[i].edges) = Len(es(ns[i]))
             /\ \A k \in DOMAIN entries[i].edges : entries[i].edges[k].key = k

\* C34 (as claimed): in a canonical graph whose keys are unique per pair,
\* group_out_edges(u) has exactly one entry per distinct successor v of u,
\* that entry maps each key to the edge from u to v with that key, and the
\* edges over all entries are the edges of out_edges(u), each once; the same
\* for group_in_edges(v) with the predecessors and in_edges(v).
C34_GroupedEdges ==
    ~DuplicateKey(G.g) =>
        \A x \in LiveNames(G) :
            LET n == NodeOf(G, x)
                outs == group_out_edges(G, x)
                ins == group_in_edges(G, x)
            IN /\ outs.res = "ok"
               /\ \E vs \in Listings(Range(Targets(G.g, OutList(G.g, n)))) :
                     Grouped(G, outs.ret, vs, LAMBDA v : Between(G.g, n, v))
               /\ ins.res = "ok"
               /\ \E us \in Listings(Range(Sources(G.g, InList(G.g, n)))) :
                     Grouped(G, ins.ret, us, LAMBDA u : Between(G.g, u, n))

\* whether two calls ended alike: both failed, or both succeeded with the
\* same value
SameOutcome(rs, ri) ==
    /\ (rs.res \in {"ok", "dup"}) = (ri.res \in {"ok", "dup"})
    /\ rs.res \in {"ok", "dup"} => rs.ret = ri.ret

\* C35 (as claimed): a string-keyed and an integer-keyed canonical graph
\* that were handed the same add_node, add_edge, update_edge, remove_node,
\* remove_edge and remove_edge_between_nodes calls hold the same live nodes
\* and edges up to the translation of ids, with the same edge ids, and the
\* next call of any of these succeeds with the same value or fails on both.
C35_StrRefinesInt ==
    /\ SameUpToIds(G, IntSelf)
    /\ \A edge \in GivenEdges :
          /\ SameOutcome(StrAddEdge(G, edge), CanonAddEdge(IntSelf, IntEdge(edge)))
          /\ SameOutcome(StrUpdateEdge(G, edge),
                         CanonUpdateEdge(IntSelf, IntEdge(edge)))
          /\ SameOutcome(StrRemoveEdgeBetweenNodes(G, edge.source, edge.target,
                                                   edge.key),
                         CanonRemoveEdgeBetweenNodes(IntSelf, Given[edge.source],
                                                     Given[edge.target], edge.key))
    /\ \A nid \in DOMAIN Given :
          SameOutcome(StrRemoveNode(G, nid), BaseRemoveNode(IntSelf, Given[nid]))
    /\ \A eid \in EdgeIds :
          SameOutcome(BaseRemoveEdge(G, eid), BaseRemoveEdge(IntSelf, eid))

\* C36 (as claimed): on a string-keyed graph the components and the longest
\* path are given in external ids, and digraph_all_simple_paths and
\* digraph_find_cycle, called with the external ids of live nodes, give what
\* they give on an integer-keyed graph for the node indices the ids stand
\* for.
C36_AlgorithmsSpeakExternalIds ==
    cls = "str" =>
        /\ LET r == weakly_connected_components(G)
           IN r.res = "ok" /\ \A i \in 1 .. Len(r.ret) : r.ret[i] \subseteq StrIds
        /\ \A r \in dag_longest_path(G) :
              r.res = "ok" => Range(r.ret) \subseteq StrIds
        /\ \A a \in DOMAIN G.idmap, b \in DOMAIN G.idmap :
              LET r == digraph_all_simple_paths(G, a, b, <<>>, <<>>, "checked")
                  q == all_simple_paths(G, G.idmap[a], G.idmap[b], <<>>, <<>>,
                                        "checked", FALSE)
              IN r.res = q.res /\ (r.res = "ok" => r.ret = q.ret)
        /\ \A a \in DOMAIN G.idmap :
              LET r == digraph_find_cycle(G, a)
                  q == find_cycle(G, G.idmap[a], FALSE)
              IN r.res = q.res /\ (r.res = "ok" => r.ret = q.ret)

\* C37 (as claimed): check_integrity() returns true or false and raises no
\* error in every state the calls of the layer reach, also when a stored
\* edge payload names a source or target that is not in the id map.
C37_CheckIntegrityIsBoolean == check_integrity(G) \in {"True", "False"}

\* the number of times the loop of remove_edges_between_nodes finds an edge
\* to remove before PyDiGraph.remove_edge raises NoEdgeBetweenNodes
RECURSIVE Rounds(_, _, _)
Rounds(g, u, v) ==
    IF Between(g, u, v) = <<>> THEN 0
    ELSE 1 + Rounds(PyRemoveEdgeFromIndex(g, Between(g, u, v)[1]), u, v)

\* C38: remove_edges_between_nodes(u, v) ends after one round per parallel
\* u->v edge; afterwards there is no edge from u to v, num_edges() has
\* dropped by the number of u->v edges there were, and every node and every
\* other edge (the edges from v to u included), the adjacency order of the
\* other edges and the id map are as before; with no u->v edge the graph is
\* unchanged.  On a string-keyed graph an id that is not mapped ends the
\* call with KeyError before the loop, the graph unchanged.
C38_RemoveEdgesBetweenNodes ==
    \A u \in NodeNames, v \in NodeNames :
        LET r == remove_edges_between_nodes(G, u, v)
            n == Index(G, u)
            m == Index(G, v)
            doomed == Range(Between(G.g, n, m))
        IN IF r.res = "ok"
           THEN /\ Rounds(G.g, n, m) = Len(Between(G.g, n, m))
                /\ Between(r.g, n, m) = <<>>
                /\ num_edges(r.g) = num_edges(G.g) - Len(Between(G.g, n, m))
                /\ edge_indexes(r.g) = edge_indexes(G.g) \ doomed
                /\ \A e \in edge_indexes(r.g) : r.g.ew[e] = G.g.ew[e]
                /\ r.g.adj = Without(G.g.adj, doomed)
                /\ r.g.nw = G.g.nw
                /\ r.idmap = G.idmap
                /\ doomed = {} => r.g = G.g
           ELSE /\ cls = "str"
                /\ u \notin DOMAIN G.idmap \/ v \notin DOMAIN G.idmap
                /\ r.res = "KeyError"
                /\ r.g = G.g /\ r.idmap = G.idmap

\* remove_edges_between_nodes was the last call, and an edge from m to n
\* stands where no edge runs from n to m
C38_RemovedBesideOthers ==
    /\ last.op = "remove_edges_between_nodes"
    /\ last.res = "ok"
    /\ \E n \in node_indexes(G.g), m \in node_indexes(G.g) :
          /\ n # m
          /\ Between(G.g, n, m) = <<>>
          /\ Between(G.g, m, n) # <<>>

\* the sum of f(x) over the elements of a finite set
RECURSIVE Sum(_, _)
Sum(f(_), S) ==
    IF S = {} THEN 0
    ELSE LET x == CHOOSE y \in S : TRUE IN f(x) + Sum(f, S \ {x})

\* C39: in every state reached by add_node, add_edge, remove_node,
\* remove_edge and remove_edges_between_nodes every live edge has a live
\* source and a live target, the adjacency lists hold exactly the live
\* edges, each once, so that an edge is in the out-list of its source exactly
\* when it is in the in-list of its target, out_degree and in_degree are the
\* lengths of out_edges and in_edges, and the out-degrees and the in-degrees
\* of the live nodes each add up to num_edges().
C39_AdjacencyAgrees ==
    /\ \A e \in edge_indexes(G.g) :
          /\ G.g.ew[e].source \in node_indexes(G.g)
          /\ G.g.ew[e].target \in node_indexes(G.g)
          /\ Cardinality({i \in 1 .. Len(G.g.adj) : G.g.adj[i] = e}) = 1
          /\ e \in Range(OutList(G.g, G.g.ew[e].source))
                <=> e \in Range(InList(G.g, G.g.ew[e].target))
    /\ Range(G.g.adj) = edge_indexes(G.g)
    /\ \A n \in node_indexes(G.g) :
          /\ out_degree(G.g, n) = Len(EdgeData(G.g, OutList(G.g, n)))
          /\ in_degree(G.g, n) = Len(EdgeData(G.g, InList(G.g, n)))
          /\ degree(G, n) = in_degree(G.g, n) + out_degree(G.g, n)
    /\ Sum(LAMBDA n : out_degree(G.g, n), node_indexes(G.g)) = num_edges(G.g)
    /\ Sum(LAMBDA n : in_degree(G.g, n), node_indexes(G.g)) = num_edges(G.g)

\* remove_node has just removed a live node with edges and left an edge on
\* the node that stays
C39_RemovedNodeBesideEdge ==
    /\ last.op = "remove_node"
    /\ last.pre.live
    /\ last.pre.degree >= 1
    /\ num_nodes(G.g) = 1
    /\ num_edges(G.g) = 1

\* C40 (as claimed): in every reachable state and for every layer G == G is
\* true, and for a graph and its copy, each changed on its own, and for the
\* graphs left by removing one node or another of the same graph (equal
\* counts, different id sets), A == B gives the answer B == A gives.
C40_EqReflexiveSymmetric ==
    /\ Eq(G, G)
    /\ Copied => /\ Eq(H, H)
                 /\ Eq(G, H) <=> Eq(H, G)
    /\ \A n \in NodeNames, m \in NodeNames :
          LET a == remove_node(G, n)
              b == remove_node(G, m)
          IN (a.res = "ok" /\ b.res = "ok")
                => (Eq(After(a), After(b)) <=> Eq(After(b), After(a)))

====
